---------------------------- MODULE Spec2Model ----------------------------
(***************************************************************************)
(* pythereum: the websocket pool (socket_pool.py), the JSON-RPC dispatcher *)
(* and the subscription scope (rpc.py), as a state machine of cooperative  *)
(* asyncio tasks.  A step of the model is what one task does between two   *)
(* suspension points of the event loop.                                    *)
(***************************************************************************)
EXTENDS Integers, Sequences, FiniteSets, TLC

\* ------------------------------------------------------------ bounds
PoolSize == 1          \* pool_size given to the constructor
NumTasks == 3          \* concurrent asyncio tasks using one dispatcher
MaxId == 4             \* envelopes one dispatcher builds in a run
MaxBatch == 2          \* largest batch a call sends
MaxMsg == 1            \* max_message_num given to subscribe
MaxOther == 2          \* envelopes the second dispatcher builds in a run
MaxParams == 2         \* positional parameters of a call
MaxRetries == 2        \* retries given to get_transaction_receipt
MaxCalls == 3          \* next_nonce calls for one address
MaxPrice == 7         \* largest estimate followed
DefaultCeiling == 6    \* stands for the default ceiling, int(EthDenomination.milli)
GivenCeiling == 4      \* the ceiling given to the GasManager constructor
MaxSample == 4         \* transactions of the block a suggestion is computed from
MaxCount == 2          \* largest max_message_num of a Subscription that is iterated
MaxRead == 3           \* messages one iteration of recv() is followed for
MaxList == 3           \* transactions in a list given to NonceManager.fill_transaction
MaxInbox == 3          \* messages of the peer that wait unread on one connection

Tasks == 1..NumTasks
Workers == 1..(NumTasks - 1)   \* tasks that make calls and open subscriptions
Manager == NumTasks            \* the task that calls start_pool and close_pool
Conns == 1..(2 * PoolSize)     \* identities of connection objects
NoConn == 0

VARIABLES
    connected,     \* WebsocketPool.connected
    sockets,       \* WebsocketPool._sockets: the items of the asyncio.Queue, head first
    getters,       \* tasks suspended in Queue.get, in arrival order
    putters,       \* puts of start() suspended in Queue.put: <<task, connection>>
    putWoken,      \* suspended puts whose future is resolved and that have not run yet
    ready,         \* tasks whose get future is resolved, in the order the event loop runs them
    unfinished,    \* Queue._unfinished_tasks
    open,          \* connections that are open (connect returned, close did not)
    waitOrder,     \* history: the tasks that wait for a connection, by first suspension
    rpcId,         \* EthRPC._id of the dispatcher the tasks share
    otherId,       \* EthRPC._id of a second dispatcher instance
    envIds,        \* history: the ids of the envelopes the shared dispatcher built
    pc,            \* per task: where it is suspended
    op,            \* per task: the public operation it is running
    held,          \* per task: the connection get_socket handed to it
    mine,          \* per task: the connections its start() opened
    subId,         \* per task: subscription_id of its subscribe scope
    cnt,           \* per task: counter of Subscription.recv
    closing,       \* per task: the connection its quit() is closing
    res,           \* per task: how its operation ended
    log,           \* per task, history: what the operation did with its connection
    dpc,           \* a call on a connection the caller supplies: where it is suspended
    dcall,         \* that call: its method, its positional parameters, its retries left (and given)
    wire,          \* history: the messages that call sent on the connection
    dresp,         \* the responses that call read from the connection
    dout,          \* how that call ended
    sleeps,        \* history: the asyncio.sleep(1) that call has done
    nonces,        \* NonceManager.nonces: the cached nonce of every seeded address
    nmClosePool,   \* NonceManager._close_pool
    nmPhase,       \* the scoped session of the NonceManager: out, entering, in, leaving
    nmFound,       \* history: whether the session found the pool running at entry
    nn,            \* the next_nonce call that is running: where it is, its address, its result
    nhist,         \* history per address: requests sent, calls returned, count the chain reported
    gmPhase,       \* the session of the GasManager: out, pricing, priced, entering, in, filling, leaving
    gmKind,        \* naive_manager or informed_manager
    gmConnected,   \* the local `connected` of naive_manager / informed_manager
    gmFound,       \* history: whether the session found the pool running at entry
    stored,        \* GasManager.informed_tx_prices
    prices,        \* InformedGasManager.prices of the session
    tx,            \* the transaction fill_transaction wrote last
    hook,          \* history: the last operation on the estimate, and the estimate before it
    informedBefore, \* history: an informed session of this GasManager has ended
    sample,        \* the prices of one attribute suggest() last read from the block
    strategy,      \* the GasStrategy of that suggest()
    suggested,     \* what that suggest() returned
    maxMessageNum, \* Subscription.max_message_num
    counter,       \* the local counter of the running recv() generator
    gen,           \* that generator: none, created, reading, yielded, exhausted, raised
    inbound,       \* history: the messages it read from the bound connection, in order
    yielded,       \* history: the values it yielded, in order
    fill,          \* the NonceManager.fill_transaction call that is running: its argument and position
    latest,        \* NaiveGasManager.latest_transactions
    nf,            \* per worker: its NaiveGasManager.fill_transaction call on the shared manager
    inbox,         \* per connection: the messages the peer sent that no recv() has read yet
    peerSub,       \* per connection: the peer holds a subscription for it
    reqId,         \* per task, history: the id of the envelope it sent last
    got,           \* per task, history: the message its _send_message read as the response
    nc,            \* per worker: its next_nonce call on the shared NonceManager
    returned,      \* history per address: the values next_nonce returned, in order
    chain,         \* per address: the transaction count the chain reports
    receipt        \* per task: the retries its get_transaction_receipt has left, and whether it is in the loop

poolVars == <<connected, sockets, getters, putters, putWoken, ready, unfinished, open, waitOrder>>
idVars == <<rpcId, otherId, envIds>>
taskVars == <<pc, op, held, mine, subId, cnt, closing, res, log>>
directVars == <<dpc, dcall, wire, dresp, dout, sleeps>>
nonceVars == <<nonces, nmClosePool, nmPhase, nmFound, nn, nhist>>
gasVars == <<gmPhase, gmKind, gmConnected, gmFound, stored, prices, tx, hook, informedBefore>>
suggestVars == <<sample, strategy, suggested>>
recvVars == <<maxMessageNum, counter, gen, inbound, yielded>>
fillVars == <<fill>>
naiveVars == <<latest, nf>>
wireVars == <<inbox, peerSub, reqId, got>>
sharedVars == <<nc, returned, chain>>
receiptVars == <<receipt>>
laterVars == <<wireVars, sharedVars, receiptVars>>
restVars == <<suggestVars, recvVars, fillVars, naiveVars, wireVars, sharedVars, receiptVars>>
managerVars == <<nonceVars, gasVars, restVars>>
extVars == <<directVars, managerVars>>
vars == <<poolVars, idVars, taskVars, extVars>>

NoSub == "unset"       \* no subscription_id assigned yet
EmptyId == ""          \* the empty subscription id
SomeId == "0x9"        \* a subscription id the peer returns

\* An entry of the history log: event e on connection c with subscription id s.
Ev(e, c, s) == [e |-> e, c |-> c, s |-> s]

\* ------------------------------------------------------------ asyncio.Queue
\* The queue part of the pool as a record, so that the steps of one handler
\* can be composed: q items, g getters, p putters, pw woken putters,
\* u unfinished tasks, wo the history waitOrder, rd the ready tasks, wake the tasks whose get
\* future was resolved in this step, exc the exception raised.  (WebsocketPool._sockets_used is written
\* by start, get_socket and quit and read by nothing: it is left out.)
PoolNow ==
    [q |-> sockets, g |-> getters, p |-> putters, pw |-> putWoken,
     u |-> unfinished, wo |-> waitOrder, rd |-> ready, wake |-> {}, exc |-> "none"]

\* Queue.full()
Full(P) == Len(P.q) >= PoolSize

\* Queue.put_nowait on a queue that is not full: append, count the unfinished
\* task, resolve the future of the first suspended getter.
PutNowait(P, c) ==
    [P EXCEPT !.q = Append(@, c),
              !.u = @ + 1,
              !.g = IF @ = <<>> THEN @ ELSE Tail(@),
              !.rd = IF P.g = <<>> THEN @ ELSE Append(@, Head(P.g)),
              !.wake = IF P.g = <<>> THEN @ ELSE @ \cup {Head(P.g)}]

\* Mutant: get_nowait that leaves the item in the queue.
GetNowaitKeeps(P) ==
    [P EXCEPT !.p = IF @ = <<>> THEN @ ELSE Tail(@),
              !.pw = IF P.p = <<>> THEN @ ELSE @ \cup {Head(P.p)}]

\* Queue.get_nowait on a queue that is not empty: the head leaves the queue and
\* the future of the first suspended putter is resolved.  The item is Head(P.q).
GetNowait(P) ==
    [P EXCEPT !.q = Tail(@),
              !.p = IF @ = <<>> THEN @ ELSE Tail(@),
              !.pw = IF P.p = <<>> THEN @ ELSE @ \cup {Head(P.p)}]

\* Mutant: the finally block of get_socket without the put_nowait.
ReleaseDrops(P, c) ==
    IF P.u = 0 THEN [P EXCEPT !.exc = "ValueError"]
    ELSE [P EXCEPT !.u = @ - 1]

\* The finally block of get_socket: task_done (ValueError when nothing is
\* unfinished), put_nowait (QueueFull when the queue is full).  An exception
\* skips the statements after it.
Release(P, c) ==
    IF P.u = 0 THEN [P EXCEPT !.exc = "ValueError"]
    ELSE LET P1 == [P EXCEPT !.u = @ - 1]
         IN  IF Full(P1) THEN [P1 EXCEPT !.exc = "QueueFull"]
             ELSE PutNowait(P1, c)

\* The pool variables take the values of the record.
SetPool(P) ==
    /\ sockets' = P.q
    /\ getters' = P.g
    /\ putters' = P.p
    /\ putWoken' = P.pw
    /\ ready' = P.rd
    /\ unfinished' = P.u
    /\ waitOrder' = P.wo

\* Task t goes to newpc; the tasks woken in this step become ready to run.
SetPc(t, newpc, P) ==
    pc' = [x \in Tasks |-> IF x = t THEN newpc
                           ELSE IF x \in P.wake THEN "woken" ELSE pc[x]]


\* ------------------------------------------------------------ envelopes
\* Mutant: _build_batch_json that advances _id once, after the loop.
BuildBatchOnce(id, k) ==
    [ids |-> [i \in 1..k |-> id], next |-> id + 1]

\* _build_batch_json: one envelope per element of param_list, each with the
\* current _id, _next_id() after each.
RECURSIVE BuildBatchJson(_, _)
BuildBatchJson(id, k) ==
    IF k = 0 THEN [ids |-> <<>>, next |-> id]
    ELSE LET rest == BuildBatchJson(id + 1, k - 1)
         IN  [ids |-> <<id>> \o rest.ids, next |-> rest.next]

\* Mutant: _build_json that does not advance _id.
BuildJsonStuck(id) == [ids |-> <<id>>, next |-> id]

\* _build_json: one envelope with the current _id, then _next_id().
BuildJson(id) == [ids |-> <<id>>, next |-> id + 1]

\* _send_message, the choice of the builder: _batch_format zips the parameter
\* lists into k tuples; a tuple among them selects _build_batch_json, none
\* (a call that is not batched, or lists of length 0) selects _build_json.
BuildMsg(id, k) == IF k > 0 THEN BuildBatchJson(id, k) ELSE BuildJson(id)

\* Replies of the peer to one request.  "closed" is a failed recv.
Replies == {"result", "empty", "error", "neither", "closed"}

\* parse_results on a single response object.
ParseResults(r) ==
    CASE r = "closed" -> "ConnectionClosed"
      [] r \in {"result", "empty"} -> "ok"
      [] r = "error" -> "RequestError"
      [] OTHER -> "InvalidReturn"

\* The result member of a reply to eth_subscribe.
ResultOf(r) == IF r = "empty" THEN EmptyId ELSE SomeId

\* ------------------------------------------------------------ get_socket
\* `socket = await self._sockets.get()`: one pass of the loop of Queue.get.
\* An empty queue suspends the task on a new future at the back of the
\* getters; otherwise get_nowait.
AfterGet(P, t) ==
    IF P.q = <<>>
    THEN [P EXCEPT !.g = Append(@, t),
                   !.wo = IF \E i \in 1..Len(@) : @[i] = t THEN @ ELSE Append(@, t)]
    ELSE [GetNowait(P) EXCEPT !.wo = SelectSeq(@, LAMBDA x : x # t)]

\* Where the task is after that pass.
PcAfterGet(P, o) ==
    IF P.q = <<>> THEN "waiting" ELSE IF o = "lease" THEN "using" ELSE "send"

HeldAfterGet(P) == IF P.q = <<>> THEN NoConn ELSE Head(P.q)

LogAfterGet(P, l) == IF P.q = <<>> THEN l ELSE Append(l, Ev("lease", Head(P.q), NoSub))

\* get_socket up to its first suspension, for task t running operation o: a
\* pool that is not connected is started first (start() suspends in gather).
EnterGetSocket(t, o) ==
    IF ~connected
    THEN /\ pc' = [pc EXCEPT ![t] = "connecting"]
         /\ UNCHANGED <<poolVars, held, log>>
    ELSE LET P == AfterGet(PoolNow, t)
         IN  /\ SetPool(P)
             /\ SetPc(t, PcAfterGet(PoolNow, o), P)
             /\ held' = [held EXCEPT ![t] = HeldAfterGet(PoolNow)]
             /\ log' = [log EXCEPT ![t] = LogAfterGet(PoolNow, @)]
             /\ UNCHANGED <<connected, open>>

\* Mutant: a finally block of get_socket that closes the connection it puts back.
LeaveGetSocketCloses(t, r, l) ==
    LET P == Release(PoolNow, held[t])
    IN  /\ SetPool(P)
        /\ SetPc(t, "done", P)
        /\ held' = [held EXCEPT ![t] = NoConn]
        /\ res' = [res EXCEPT ![t] = IF P.exc = "none" THEN r ELSE P.exc]
        /\ log' = [log EXCEPT ![t] =
                     Append(l, Ev(IF P.exc = "none" THEN "put" ELSE "lost", held[t], NoSub))]
        /\ open' = open \ {held[t]}
        /\ UNCHANGED connected

\* Leaving the `async with get_socket()` block of task t with outcome r and
\* history l: the finally block runs; an exception it raises replaces the outcome.
LeaveGetSocket(t, r, l) ==
    LET P == Release(PoolNow, held[t])
    IN  /\ SetPool(P)
        /\ SetPc(t, "done", P)
        /\ held' = [held EXCEPT ![t] = NoConn]
        /\ res' = [res EXCEPT ![t] = IF P.exc = "none" THEN r ELSE P.exc]
        /\ log' = [log EXCEPT ![t] =
                     Append(l, Ev(IF P.exc = "none" THEN "put" ELSE "lost", held[t], NoSub))]
        /\ UNCHANGED <<connected, open>>

\* Envelope ids the open subscribe scopes still need (eth_subscribe, eth_unsubscribe).
Reserved ==
    2 * Cardinality({t \in Tasks : op[t] = "sub" /\ pc[t] \in {"connecting", "putting", "waiting", "woken", "send"}})
    + Cardinality({t \in Tasks : op[t] = "sub" /\ pc[t] \in {"sub_recv", "body"}})

\* ------------------------------------------------------------ initial state
\* After EthRPC.__init__ and WebsocketPool.__init__: nothing opened, ids at 0.
InitPool ==
    /\ connected = FALSE
    /\ sockets = <<>>
    /\ getters = <<>>
    /\ putters = <<>>
    /\ putWoken = {}
    /\ ready = <<>>
    /\ unfinished = 0
    /\ waitOrder = <<>>
    /\ open = {}
    /\ rpcId = 0
    /\ otherId = 0
    /\ envIds = <<>>
    /\ pc = [t \in Tasks |-> "idle"]
    /\ op = [t \in Tasks |-> "none"]
    /\ held = [t \in Tasks |-> NoConn]
    /\ mine = [t \in Tasks |-> {}]
    /\ subId = [t \in Tasks |-> NoSub]
    /\ cnt = [t \in Tasks |-> 0]
    /\ closing = [t \in Tasks |-> NoConn]
    /\ res = [t \in Tasks |-> "none"]
    /\ log = [t \in Tasks |-> <<>>]

\* No call on a supplied connection has been made.
NoCall == [method |-> "none", params |-> <<>>, retries |-> 0, given |-> 0]
NoOutcome == [kind |-> "none", value |-> "", values |-> <<>>, code |-> 0, message |-> ""]

InitDirect ==
    /\ dpc = "idle"
    /\ dcall = NoCall
    /\ wire = <<>>
    /\ dresp = <<>>
    /\ dout = NoOutcome
    /\ sleeps = 0

\* The accounts nonces are asked for, and the transaction counts the chain
\* can report for an account.
Addrs == {"0xa1", "0xa2"}
Counts == {0, 5}

NoNonceCall == [pc |-> "idle", addr |-> "", ret |-> 0, err |-> FALSE]

\* After NonceManager.__init__: nothing cached, _close_pool = True.
InitNonce ==
    /\ nonces = <<>>
    /\ nmClosePool = TRUE
    /\ nmPhase = "out"
    /\ nmFound = "none"
    /\ nn = NoNonceCall
    /\ nhist = [a \in Addrs |-> [asked |-> 0, calls |-> 0, first |-> 0, failed |-> FALSE]]

\* The fee fields of a transaction, and a record of zeros for them.
Fields == {"gas", "maxFeePerGas", "maxPriorityFeePerGas"}
ZeroPrices == [gas |-> 0, maxFeePerGas |-> 0, maxPriorityFeePerGas |-> 0]
NoHook == [name |-> "none", before |-> ZeroPrices]

\* After GasManager.__init__: nothing stored, no session.
InitGas ==
    /\ gmPhase = "out"
    /\ gmKind = "none"
    /\ gmConnected = FALSE
    /\ gmFound = "none"
    /\ stored = ZeroPrices
    /\ prices = ZeroPrices
    /\ tx = ZeroPrices
    /\ hook = NoHook
    /\ informedBefore = FALSE

\* No suggest() has run.
InitSuggest ==
    /\ sample = <<>>
    /\ strategy = "none"
    /\ suggested = 0

\* No Subscription is iterated.
InitRecv ==
    /\ maxMessageNum = 0 - 1
    /\ counter = 0
    /\ gen = "none"
    /\ inbound = <<>>
    /\ yielded = <<>>

\* No NonceManager.fill_transaction has been called.
NoFill == [kind |-> "none", txs |-> <<>>, pos |-> 0, pc |-> "idle"]

InitFill == fill = NoFill

\* A price that is None, and a fee field that is not written.
NoPrice == 0 - 1
NoTx == [f \in Fields |-> NoPrice]

\* latest_transactions = None, and no fill_transaction of a worker.
NoBlock == [set |-> FALSE, txs |-> <<>>]
NoNaive == [pc |-> "idle", st |-> "none", stored |-> FALSE, tx |-> NoTx, got |-> NoBlock,
            crossed |-> FALSE]

\* After NaiveGasManager.__init__.
InitNaive ==
    /\ latest = NoBlock
    /\ nf = [t \in Workers |-> NoNaive]

\* A message of the peer on a connection: the response to the envelope id
\* (of a call, of eth_subscribe, of eth_unsubscribe), or a push message of
\* a subscription, which carries no id.
NoId == 0 - 1
Msg(kind, id) == [kind |-> kind, id |-> id]
NoMsg == Msg("none", NoId)

\* Nothing was sent on any connection.
InitWire ==
    /\ inbox = [c \in Conns |-> <<>>]
    /\ peerSub = [c \in Conns |-> FALSE]
    /\ reqId = [t \in Tasks |-> NoId]
    /\ got = [t \in Tasks |-> NoMsg]

\* No task is in next_nonce, nothing was returned, no count was asked for.
InitShared ==
    /\ nc = [t \in Workers |-> NoNonceCall]
    /\ returned = [a \in Addrs |-> <<>>]
    /\ chain = [a \in Addrs |-> NoId]

\* No task is in get_transaction_receipt.
NoReceipt == [retries |-> 0, inLoop |-> FALSE]

InitReceipt == receipt = [t \in Tasks |-> NoReceipt]

Init ==
    /\ InitPool /\ InitDirect /\ InitNonce /\ InitGas /\ InitSuggest /\ InitRecv
    /\ InitFill /\ InitNaive /\ InitWire /\ InitShared /\ InitReceipt

\* ------------------------------------------------------------ dispatcher calls
\* EthRPC._send_message(method, params) without a websocket, up to its first
\* suspension: the envelopes are built (k tuples of a batch, k = 0 when the
\* call is not batched), then get_socket is entered.
CallBegin(t, k) ==
    /\ pc[t] = "idle"
    /\ rpcId + (IF k = 0 THEN 1 ELSE k) + Reserved <= MaxId
    /\ op' = [op EXCEPT ![t] = "call"]
    /\ rpcId' = BuildMsg(rpcId, k).next
    /\ envIds' = envIds \o BuildMsg(rpcId, k).ids
    /\ EnterGetSocket(t, "call")
    /\ UNCHANGED <<otherId, mine, subId, cnt, closing, res>>

\* A task whose get future was resolved runs again, the tasks resumed before
\* it first (call_soon is first in, first out): the next pass of the loop of
\* Queue.get (the queue may be empty again).
GetRetry(t) ==
    /\ pc[t] = "woken"
    /\ ready # <<>> /\ Head(ready) = t
    /\ LET P0 == [PoolNow EXCEPT !.rd = Tail(@)]
           P == AfterGet(P0, t)
       IN  /\ SetPool(P)
           /\ SetPc(t, PcAfterGet(PoolNow, op[t]), P)
           /\ held' = [held EXCEPT ![t] = HeldAfterGet(PoolNow)]
           /\ log' = [log EXCEPT ![t] = LogAfterGet(PoolNow, @)]
    /\ UNCHANGED <<connected, open, idVars, op, mine, subId, cnt, closing, res>>

\* `await ws.send(built_msg)` of a pooled call: sent, or the send fails and
\* the exception leaves the with block.
CallSend(t, ok) ==
    /\ pc[t] = "send" /\ op[t] = "call"
    /\ IF ok
       THEN /\ pc' = [pc EXCEPT ![t] = "recv"]
            /\ UNCHANGED <<poolVars, held, res, log>>
       ELSE LeaveGetSocket(t, "ConnectionClosed", log[t])
    /\ UNCHANGED <<idVars, op, mine, subId, cnt, closing>>

\* `msg = await ws.recv()` of a pooled call returns or fails; the with block is
\* left, then parse_results returns or raises.
CallRecv(t, r) ==
    /\ pc[t] = "recv"
    /\ LeaveGetSocket(t, ParseResults(r), log[t])
    /\ UNCHANGED <<idVars, op, mine, subId, cnt, closing>>

\* A call on a second EthRPC instance (its own _id; HTTP transport, no pool).
OtherCall(k) ==
    /\ otherId + (IF k = 0 THEN 1 ELSE k) <= MaxOther
    /\ otherId' = BuildMsg(otherId, k).next
    /\ UNCHANGED <<poolVars, rpcId, envIds, taskVars>>

\* The caller takes the outcome of its operation; its locals go out of scope.
Return(t) ==
    /\ pc[t] = "done"
    /\ pc' = [pc EXCEPT ![t] = "idle"]
    /\ op' = [op EXCEPT ![t] = "none"]
    /\ mine' = [mine EXCEPT ![t] = {}]
    /\ subId' = [subId EXCEPT ![t] = NoSub]
    /\ cnt' = [cnt EXCEPT ![t] = 0]
    /\ res' = [res EXCEPT ![t] = "none"]
    /\ log' = [log EXCEPT ![t] = <<>>]
    /\ UNCHANGED <<poolVars, idVars, held, closing>>

\* ------------------------------------------------------------ start and quit
\* The loop of quit() from its test to its next suspension, run by task t for
\* operation o on pool record P: an empty queue ends quit (connected = False;
\* a start() goes on to connect); otherwise get_nowait and `await sock.close()`.
QuitStep(t, P, o) ==
    IF P.q = <<>>
    THEN /\ SetPool(P)
         /\ connected' = FALSE
         /\ closing' = [closing EXCEPT ![t] = NoConn]
         /\ SetPc(t, IF o = "close" THEN "done" ELSE "connecting", P)
    ELSE /\ SetPool(GetNowait(P))
         /\ connected' = connected
         /\ closing' = [closing EXCEPT ![t] = Head(P.q)]
         /\ SetPc(t, "closing", P)

\* EthRPC.close_pool() -> WebsocketPool.quit().
ClosePool(t) ==
    /\ pc[t] = "idle"
    /\ op' = [op EXCEPT ![t] = "close"]
    /\ QuitStep(t, PoolNow, "close")
    /\ res' = [res EXCEPT ![t] = "ok"]
    /\ UNCHANGED <<open, idVars, held, mine, subId, cnt, log>>

\* EthRPC.start_pool() -> WebsocketPool.start(): a connected pool is quit
\* first, then the connections are opened (gather suspends).
StartPool(t) ==
    /\ pc[t] = "idle"
    /\ op' = [op EXCEPT ![t] = "start"]
    /\ IF connected
       THEN QuitStep(t, PoolNow, "start")
       ELSE /\ pc' = [pc EXCEPT ![t] = "connecting"]
            /\ UNCHANGED <<connected, sockets, getters, putters, putWoken,
                           ready, unfinished, waitOrder, closing>>
    /\ res' = [res EXCEPT ![t] = "ok"]
    /\ UNCHANGED <<open, idVars, held, mine, subId, cnt, log>>

\* `await sock.close()` of quit() returns: the connection is closed, task_done
\* (ValueError when nothing is unfinished), and the loop goes on.
CloseDone(t) ==
    /\ pc[t] = "closing"
    /\ open' = open \ {closing[t]}
    /\ IF unfinished = 0
       THEN /\ pc' = [pc EXCEPT ![t] = "done"]
            /\ res' = [res EXCEPT ![t] = "ValueError"]
            /\ closing' = [closing EXCEPT ![t] = NoConn]
            /\ UNCHANGED <<connected, sockets, getters, putters, putWoken,
                           ready, unfinished, waitOrder>>
       ELSE /\ QuitStep(t, [PoolNow EXCEPT !.u = @ - 1], op[t])
            /\ res' = res
    /\ UNCHANGED <<idVars, op, held, mine, subId, cnt, log>>

\* The smallest n elements of a set of numbers, in ascending order.
RECURSIVE Smallest(_, _)
Smallest(S, n) ==
    IF n = 0 \/ S = {} THEN <<>>
    ELSE LET m == CHOOSE x \in S : \A y \in S : x <= y
         IN  <<m>> \o Smallest(S \ {m}, n - 1)

\* `gather(*(self._sockets.put(s) for s in sockets))` up to its suspension:
\* each put, in order, is put_nowait when the queue is not full and is
\* suspended at the back of the putters when it is.
RECURSIVE PutAll(_, _, _)
PutAll(P, t, cs) ==
    IF cs = <<>> THEN P
    ELSE PutAll(IF Full(P) THEN [P EXCEPT !.p = Append(@, <<t, Head(cs)>>)]
                ELSE PutNowait(P, Head(cs)),
                t, Tail(cs))

\* The connections a start() opens: PoolSize new connection objects.
NewConns == Smallest(Conns \ open, PoolSize)

\* gather(connect x PoolSize) of start() returns, and the puts are gathered.
StartConnected(t) ==
    /\ pc[t] = "connecting"
    /\ Cardinality(Conns \ open) >= PoolSize
    /\ open' = open \cup {NewConns[i] : i \in 1..PoolSize}
    /\ mine' = [mine EXCEPT ![t] = {NewConns[i] : i \in 1..PoolSize}]
    /\ LET P == PutAll(PoolNow, t, NewConns)
       IN  /\ SetPool(P)
           /\ SetPc(t, "putting", P)
    /\ UNCHANGED <<connected, idVars, op, held, subId, cnt, closing, res, log>>

\* A suspended put of start() whose future was resolved runs again: the next
\* pass of the loop of Queue.put (the queue may be full again).
PutRetry(t, c) ==
    /\ <<t, c>> \in putWoken
    /\ LET P0 == [PoolNow EXCEPT !.pw = @ \ {<<t, c>>}]
           P == IF Full(P0) THEN [P0 EXCEPT !.p = Append(@, <<t, c>>)]
                ELSE PutNowait(P0, c)
       IN  /\ SetPool(P)
           /\ SetPc(t, pc[t], P)
    /\ UNCHANGED <<connected, open, idVars, op, held, mine, subId, cnt, closing, res, log>>

\* The puts of the start() of task t that have not returned.
PendingPuts(t) ==
    {c \in Conns : <<t, c>> \in putWoken \/ \E i \in 1..Len(putters) : putters[i] = <<t, c>>}

\* gather(put x PoolSize) returns: connected = True.  A start() called by
\* get_socket returns into it, and the get follows at once.
StartFinish(t) ==
    /\ pc[t] = "putting"
    /\ PendingPuts(t) = {}
    /\ connected' = TRUE
    /\ LET P0 == PoolNow
       IN  IF op[t] = "start"
           THEN /\ SetPool(P0)
                /\ SetPc(t, "done", P0)
                /\ UNCHANGED <<held, log>>
           ELSE /\ SetPool(AfterGet(P0, t))
                /\ SetPc(t, PcAfterGet(P0, op[t]), AfterGet(P0, t))
                /\ held' = [held EXCEPT ![t] = HeldAfterGet(P0)]
                /\ log' = [log EXCEPT ![t] = LogAfterGet(P0, @)]
    /\ UNCHANGED <<open, idVars, op, mine, subId, cnt, closing, res>>

\* ------------------------------------------------------------ subscribe
\* EthRPC.subscribe up to its first suspension: get_socket is entered.
SubscribeBegin(t) ==
    /\ pc[t] = "idle"
    /\ rpcId + 2 + Reserved <= MaxId
    /\ op' = [op EXCEPT ![t] = "sub"]
    /\ EnterGetSocket(t, "sub")
    /\ UNCHANGED <<idVars, mine, subId, cnt, closing, res>>

\* _get_subscription on the leased connection: the eth_subscribe envelope is
\* built and sent.  A failed send leaves subscription_id == "", so the finally
\* block raises PythereumSubscriptionException and the with block is left.
SubSend(t, ok) ==
    /\ pc[t] = "send" /\ op[t] = "sub"
    /\ rpcId' = BuildJson(rpcId).next
    /\ envIds' = envIds \o BuildJson(rpcId).ids
    /\ IF ok
       THEN /\ pc' = [pc EXCEPT ![t] = "sub_recv"]
            /\ UNCHANGED <<poolVars, held, res, log>>
       ELSE LeaveGetSocket(t, "SubscriptionError", log[t])
    /\ UNCHANGED <<otherId, op, mine, subId, cnt, closing>>

\* The reply to eth_subscribe arrives.  A result is assigned to
\* subscription_id, the Subscription is constructed and yielded: the body of
\* the with statement runs.  An exception of recv or parse_results leaves
\* subscription_id == "": the finally block raises PythereumSubscriptionException.
SubRecv(t, r) ==
    /\ pc[t] = "sub_recv"
    /\ IF ParseResults(r) = "ok"
       THEN /\ subId' = [subId EXCEPT ![t] = ResultOf(r)]
            /\ pc' = [pc EXCEPT ![t] = "body"]
            /\ log' = [log EXCEPT ![t] = Append(@, Ev("yield", held[t], ResultOf(r)))]
            /\ UNCHANGED <<poolVars, held, res>>
       ELSE /\ LeaveGetSocket(t, "SubscriptionError", log[t])
            /\ subId' = subId
    /\ UNCHANGED <<idVars, op, mine, cnt, closing>>

\* One pass of the loop of Subscription.recv in the body: a push message is
\* read from the bound connection and its decoded value is yielded.
BodyRecv(t) ==
    /\ pc[t] = "body"
    /\ cnt[t] < MaxMsg
    /\ cnt' = [cnt EXCEPT ![t] = @ + 1]
    /\ UNCHANGED <<poolVars, idVars, pc, op, held, mine, subId, closing, res, log>>

\* Mutant: a finally block of subscribe that never unsubscribes.
RejectedAlways(sid) == TRUE

\* The test of the finally block of subscribe: `subscription_id == ""`.
Rejected(sid) == sid = EmptyId

\* The ways the body of the subscribe scope ends.
BodyEnds == {"exhausted", "break", "raise"}

\* The body ends (recv() exhausted, the consumer loop left early, or an
\* exception) and the finally block of subscribe runs: an empty
\* subscription_id raises PythereumSubscriptionException; otherwise
\* _unsubscribe builds the eth_unsubscribe envelope and sends it on ws.
BodyExit(t, how, ok) ==
    /\ pc[t] = "body"
    /\ how = "exhausted" => cnt[t] = MaxMsg
    /\ IF Rejected(subId[t])
       THEN /\ LeaveGetSocket(t, "SubscriptionError", log[t])
            /\ UNCHANGED idVars
       ELSE /\ rpcId' = BuildJson(rpcId).next
            /\ envIds' = envIds \o BuildJson(rpcId).ids
            /\ otherId' = otherId
            /\ IF ok
               THEN /\ pc' = [pc EXCEPT ![t] = "unsub_recv"]
                    /\ res' = [res EXCEPT ![t] = how]
                    /\ log' = [log EXCEPT ![t] = Append(@, Ev("unsub", held[t], subId[t]))]
                    /\ UNCHANGED <<poolVars, held>>
               ELSE LeaveGetSocket(t, "ConnectionClosed",
                                   Append(log[t], Ev("unsub", held[t], subId[t])))
    /\ UNCHANGED <<op, mine, subId, cnt, closing>>

\* The reply to eth_unsubscribe arrives (or recv fails): the finally block of
\* subscribe ends and the with block of get_socket is left.
UnsubRecv(t, r) ==
    /\ pc[t] = "unsub_recv"
    /\ LeaveGetSocket(t, IF ParseResults(r) # "ok" THEN ParseResults(r)
                         ELSE IF res[t] = "raise" THEN "BodyError" ELSE "ok",
                      log[t])
    /\ UNCHANGED <<idVars, op, mine, subId, cnt, closing>>

\* ------------------------------------------------------------ pool clients
\* `async with pool.get_socket() as ws:` entered by a client of the pool.
LeaseBegin(t) ==
    /\ pc[t] = "idle"
    /\ op' = [op EXCEPT ![t] = "lease"]
    /\ EnterGetSocket(t, "lease")
    /\ UNCHANGED <<idVars, mine, subId, cnt, closing, res>>

\* The client leaves the with block.
LeaseEnd(t) ==
    /\ pc[t] = "using"
    /\ LeaveGetSocket(t, "ok", log[t])
    /\ UNCHANGED <<idVars, op, mine, subId, cnt, closing>>

\* ------------------------------------------------------------ parse_results
\* A response object of the peer: its result member ("absent" when the
\* object has none, "null" for JSON null, a JSON string otherwise) and its
\* error member.
NoMember == "absent"
Null == "null"
NoError == [present |-> FALSE, code |-> 0, message |-> ""]
PeerErrors ==
    { [present |-> TRUE, code |-> 0 - 32000, message |-> "execution reverted"],
      [present |-> TRUE, code |-> 0 - 32601, message |-> "method not found"] }
EncodedText == "\"0x5\""      \* a JSON string whose content is JSON text again
Objects == [result : {NoMember, Null, "0x5", EncodedText}, error : {NoError} \cup PeerErrors]

\* json.loads on the text v of a JSON string.
JsonLoads(v) == IF v = EncodedText THEN "0x5" ELSE "JSONDecodeError"

Returned(v) == [NoOutcome EXCEPT !.kind = "return", !.value = v]
RequestError(e) == [NoOutcome EXCEPT !.kind = "RequestError", !.code = e.code, !.message = e.message]
InvalidReturn == [NoOutcome EXCEPT !.kind = "InvalidReturn"]

\* parse_results on one response object: without a result member the error
\* member decides between the two exceptions; with one, res["result"].
ParseObject(o) ==
    IF o.result = NoMember
    THEN IF o.error.present THEN RequestError(o.error) ELSE InvalidReturn
    ELSE Returned(o.result)

\* Mutant: parse_results that returns the values of an array back to front.
ParseListReversed(os) ==
    LET bad == {i \in 1..Len(os) : ParseObject(os[i]).kind # "return"}
    IN  IF bad # {}
        THEN ParseObject(os[CHOOSE i \in bad : \A j \in bad : i <= j])
        ELSE [NoOutcome EXCEPT !.kind = "list",
                               !.values = [i \in 1..Len(os) |->
                                             ParseObject(os[Len(os) + 1 - i]).value]]

\* parse_results on a response array: parse_results of each item in order;
\* the first item that raises ends it.
ParseList(os) ==
    LET bad == {i \in 1..Len(os) : ParseObject(os[i]).kind # "return"}
    IN  IF bad # {}
        THEN ParseObject(os[CHOOSE i \in bad : \A j \in bad : i <= j])
        ELSE [NoOutcome EXCEPT !.kind = "list",
                               !.values = [i \in 1..Len(os) |-> ParseObject(os[i]).value]]

\* parse_results(msg) on what recv returned: one object, or an array.
ParseMsg(os, array) == IF array THEN ParseList(os) ELSE ParseObject(os[1])

\* ------------------------------------------------------------ calls on a supplied connection
\* The positional parameters of a call: parameter j is a list of n items
\* (item i of it is <<j, i>>) or one value that is not a list.
Shapes == {[list |-> FALSE, n |-> 1]} \cup {[list |-> TRUE, n |-> n] : n \in 0..MaxBatch}
Param(j, sh) == [list |-> sh.list, items |-> [i \in 1..sh.n |-> <<j, i>>]]
Value(v) == [list |-> FALSE, items |-> <<v>>]
ParamLists == UNION {[1..n -> Shapes] : n \in 0..MaxParams}

\* The length of the shortest of the lists ps (zip stops there); 0 for none.
Shortest(ps) ==
    IF ps = <<>> THEN 0
    ELSE CHOOSE n \in {Len(ps[j].items) : j \in 1..Len(ps)} :
            \A j \in 1..Len(ps) : n <= Len(ps[j].items)

\* Mutant: _batch_format that zips whenever some parameter is a list.
BatchFormatAny(ps) ==
    IF \E j \in 1..Len(ps) : ps[j].list
    THEN [zipped |-> TRUE,
          rows |-> [i \in 1..Shortest(ps) |-> [j \in 1..Len(ps) |-> Value(ps[j].items[i])]]]
    ELSE [zipped |-> FALSE, rows |-> ps]

\* _batch_format: when every parameter is a list, list(zip(*param_list)), a
\* list of tuples; otherwise the parameters as they are.
BatchFormat(ps) ==
    IF \A j \in 1..Len(ps) : ps[j].list
    THEN [zipped |-> TRUE,
          rows |-> [i \in 1..Shortest(ps) |-> [j \in 1..Len(ps) |-> Value(ps[j].items[i])]]]
    ELSE [zipped |-> FALSE, rows |-> ps]

\* built_msg of _send_message: a tuple among the formatted parameters selects
\* _build_batch_json (a JSON array, one envelope per tuple), none selects
\* _build_json (one envelope whose params are the formatted parameters).
BuiltMsg(id, ps) ==
    LET f == BatchFormat(ps)
        k == IF f.zipped THEN Len(f.rows) ELSE 0
        b == BuildMsg(id, k)
    IN  [array |-> k > 0,
         next |-> b.next,
         envs |-> [i \in 1..Len(b.ids) |->
                     [id |-> b.ids[i], params |-> IF k > 0 THEN f.rows[i] ELSE f.rows]]]

ConnectionClosed == [NoOutcome EXCEPT !.kind = "ConnectionClosed"]

\* `await websocket.send(built_msg)` of _send_message with a websocket: the
\* message is built, then sent (ok) or the send raises.
DirectSend(ok) ==
    LET b == BuiltMsg(rpcId, dcall'.params)
    IN  /\ rpcId' = b.next
        /\ envIds' = envIds \o [i \in 1..Len(b.envs) |-> b.envs[i].id]
        /\ wire' = Append(wire, [array |-> b.array, envs |-> b.envs])
        /\ dpc' = IF ok THEN "sent" ELSE "done"
        /\ dout' = IF ok THEN dout ELSE ConnectionClosed

\* Mutant: a call given a websocket that also takes an idle connection out
\* of the pool.
DirectBeginLeases(m, shapes, r, ok) ==
    /\ dpc = "idle"
    /\ m = "call" => r = 0
    /\ m = "receipt" => Len(shapes) = 1
    /\ dcall' = [method |-> m,
                 params |-> [j \in 1..Len(shapes) |-> Param(j, shapes[j])],
                 retries |-> r,
                 given |-> r]
    /\ rpcId + Len(BuiltMsg(rpcId, dcall'.params).envs) + r <= MaxId
    /\ DirectSend(ok)
    /\ sockets' = IF sockets = <<>> THEN sockets ELSE Tail(sockets)
    /\ UNCHANGED <<dresp, sleeps>>
    /\ UNCHANGED <<connected, getters, putters, putWoken, ready, unfinished, open, waitOrder>>
    /\ UNCHANGED <<otherId, taskVars, managerVars>>

\* A dispatcher call (m = "call") or get_transaction_receipt(tx_hash,
\* retries = r) given a websocket, up to its first suspension.
DirectBegin(m, shapes, r, ok) ==
    /\ dpc = "idle"
    /\ m = "call" => r = 0
    /\ m = "receipt" => Len(shapes) = 1
    /\ dcall' = [method |-> m,
                 params |-> [j \in 1..Len(shapes) |-> Param(j, shapes[j])],
                 retries |-> r,
                 given |-> r]
    /\ rpcId + Len(BuiltMsg(rpcId, dcall'.params).envs) + r <= MaxId
    /\ DirectSend(ok)
    /\ UNCHANGED <<dresp, sleeps>>
    /\ UNCHANGED <<poolVars, otherId, taskVars, managerVars>>

\* A response object with the id member the peer gave it.
WithId(o, id) == [id |-> id, result |-> o.result, error |-> o.error]

\* What the peer can answer to message m: one object, or an array with one
\* object per envelope; each carries the id of some envelope of m, in any
\* order (a message without envelopes is answered with id 0).
Answers(m) ==
    LET ids == IF m.envs = <<>> THEN {0} ELSE {m.envs[i].id : i \in 1..Len(m.envs)}
    IN  [1..(IF m.array THEN Len(m.envs) ELSE 1) ->
            {WithId(o, id) : o \in Objects, id \in ids}]

\* What the peer can answer to the message sent last.
PendingAnswers == IF wire = <<>> THEN {} ELSE Answers(wire[Len(wire)])

\* Mutant: a reply read inside the loop of get_transaction_receipt that does
\* not count down the retries.
DirectRecvNoCount(os) ==
    /\ dpc = "sent"
    /\ os \in Answers(wire[Len(wire)])
    /\ LET msg == ParseMsg(os, wire[Len(wire)].array)
           again == /\ dcall.method = "receipt"
                    /\ msg = Returned(Null)
                    /\ dcall.retries > 0
       IN  /\ dresp' = os
           /\ dcall' = dcall
           /\ dpc' = IF again THEN "sleeping" ELSE "done"
           /\ dout' = IF again THEN dout ELSE msg
    /\ UNCHANGED <<wire, sleeps>>
    /\ UNCHANGED <<poolVars, idVars, taskVars, managerVars>>

\* `msg = await websocket.recv()` returns os and parse_results returns or
\* raises.  In get_transaction_receipt a recv inside the loop is followed by
\* retries -= 1, and `msg is None and retries > 0` enters asyncio.sleep(1).
DirectRecv(os) ==
    /\ dpc = "sent"
    /\ os \in Answers(wire[Len(wire)])
    /\ LET msg == ParseMsg(os, wire[Len(wire)].array)
           left == IF sleeps > 0 THEN dcall.retries - 1 ELSE dcall.retries
           again == /\ dcall.method = "receipt"
                    /\ msg = Returned(Null)
                    /\ left > 0
       IN  /\ dresp' = os
           /\ dcall' = [dcall EXCEPT !.retries = left]
           /\ dpc' = IF again THEN "sleeping" ELSE "done"
           /\ dout' = IF again THEN dout ELSE msg
    /\ UNCHANGED <<wire, sleeps>>
    /\ UNCHANGED <<poolVars, idVars, taskVars, managerVars>>

\* Mutant: a failed recv in get_transaction_receipt that is tried again.
DirectFailRetries ==
    /\ dpc = "sent"
    /\ dpc' = IF dcall.method = "receipt" /\ dcall.retries > 0 THEN "sleeping" ELSE "done"
    /\ dout' = ConnectionClosed
    /\ UNCHANGED <<dcall, wire, dresp, sleeps>>
    /\ UNCHANGED <<poolVars, idVars, taskVars, managerVars>>

\* `await websocket.recv()` raises.
DirectFail ==
    /\ dpc = "sent"
    /\ dpc' = "done"
    /\ dout' = ConnectionClosed
    /\ UNCHANGED <<dcall, wire, dresp, sleeps>>
    /\ UNCHANGED <<poolVars, idVars, taskVars, managerVars>>

\* asyncio.sleep(1) of get_transaction_receipt returns and the request is
\* sent again.
DirectWake(ok) ==
    /\ dpc = "sleeping"
    /\ sleeps' = sleeps + 1
    /\ dcall' = dcall
    /\ DirectSend(ok)
    /\ UNCHANGED dresp
    /\ UNCHANGED <<poolVars, otherId, taskVars, managerVars>>

\* The caller takes the outcome.
DirectReturn ==
    /\ dpc = "done"
    /\ dpc' = "idle"
    /\ dcall' = NoCall
    /\ wire' = <<>>
    /\ dresp' = <<>>
    /\ dout' = NoOutcome
    /\ sleeps' = 0
    /\ UNCHANGED <<poolVars, idVars, taskVars, managerVars>>

\* ------------------------------------------------------------ NonceManager
\* The dictionary ns with ns[a] = v.
WithNonce(ns, a, v) == [x \in (DOMAIN ns) \cup {a} |-> IF x = a THEN v ELSE ns[x]]

\* Mutant: next_nonce that asks the chain on every call.
NextNonceAsks(a) ==
    /\ nn.pc = "idle" /\ pc[Manager] = "idle"
    /\ nmPhase \in {"out", "in"}
    /\ nhist[a].calls < MaxCalls
    /\ CallBegin(Manager, 0)
    /\ nn' = [NoNonceCall EXCEPT !.pc = "seeding", !.addr = a]
    /\ nhist' = [nhist EXCEPT ![a].asked = @ + 1]
    /\ UNCHANGED <<nonces, nmClosePool, nmPhase, nmFound, directVars, gasVars, restVars>>

\* NonceManager.next_nonce(a), up to its suspension or its return: an address
\* that is not cached is asked for with rpc.get_transaction_count(a, latest),
\* a pooled call; a cached one is counted up and returned.
NextNonce(a) ==
    /\ nn.pc = "idle" /\ pc[Manager] = "idle"
    /\ nmPhase \in {"out", "in"}
    /\ nhist[a].calls < MaxCalls
    /\ IF a \notin DOMAIN nonces
       THEN /\ CallBegin(Manager, 0)
            /\ nn' = [NoNonceCall EXCEPT !.pc = "seeding", !.addr = a]
            /\ nhist' = [nhist EXCEPT ![a].asked = @ + 1]
            /\ UNCHANGED nonces
       ELSE /\ nonces' = [nonces EXCEPT ![a] = @ + 1]
            /\ nn' = [pc |-> "done", addr |-> a, ret |-> nonces[a] + 1, err |-> FALSE]
            /\ nhist' = [nhist EXCEPT ![a].calls = @ + 1]
            /\ UNCHANGED <<poolVars, idVars, taskVars>>
    /\ UNCHANGED <<nmClosePool, nmPhase, nmFound, directVars, gasVars, restVars>>

\* get_transaction_count returns the count c the chain reports, which is
\* cached and returned, or it raises and nothing is cached.
NonceSeeded(c) ==
    /\ nn.pc = "seeding" /\ pc[Manager] = "done"
    /\ Return(Manager)
    /\ IF res[Manager] = "ok"
       THEN /\ nonces' = WithNonce(nonces, nn.addr, c)
            /\ nn' = [nn EXCEPT !.pc = "done", !.ret = c]
            /\ nhist' = [nhist EXCEPT ![nn.addr].calls = @ + 1, ![nn.addr].first = c]
       ELSE /\ nn' = [nn EXCEPT !.pc = "done", !.err = TRUE]
            /\ nhist' = [nhist EXCEPT ![nn.addr].failed = TRUE]
            /\ UNCHANGED nonces
    /\ UNCHANGED <<nmClosePool, nmPhase, nmFound, directVars, gasVars, restVars>>

\* The caller of next_nonce takes the nonce (or the exception).
NonceReturn ==
    /\ nn.pc = "done"
    /\ nn' = NoNonceCall
    /\ UNCHANGED <<nonces, nmClosePool, nmPhase, nmFound, nhist, directVars, gasVars, restVars>>
    /\ UNCHANGED <<poolVars, idVars, taskVars>>

\* NonceManager.__aenter__: a pool that is not connected is started; for one
\* that is, _close_pool = False.
NonceEnter ==
    /\ nmPhase = "out" /\ nn.pc = "idle" /\ pc[Manager] = "idle"
    /\ IF connected
       THEN /\ nmClosePool' = FALSE
            /\ nmPhase' = "in"
            /\ nmFound' = "running"
            /\ UNCHANGED <<poolVars, idVars, taskVars>>
       ELSE /\ StartPool(Manager)
            /\ nmPhase' = "entering"
            /\ nmFound' = "stopped"
            /\ UNCHANGED nmClosePool
    /\ UNCHANGED <<nonces, nn, nhist, directVars, gasVars, restVars>>

\* start_pool() of __aenter__ returns: the body of the `async with` begins.
NonceEntered ==
    /\ nmPhase = "entering" /\ pc[Manager] = "done"
    /\ Return(Manager)
    /\ nmPhase' = "in"
    /\ UNCHANGED <<nonces, nmClosePool, nmFound, nn, nhist, directVars, gasVars, restVars>>

\* NonceManager.__aexit__: close_pool() when _close_pool is set.
NonceExit ==
    /\ nmPhase = "in" /\ nn.pc = "idle" /\ pc[Manager] = "idle"
    /\ IF nmClosePool
       THEN /\ ClosePool(Manager)
            /\ nmPhase' = "leaving"
       ELSE /\ nmPhase' = "out"
            /\ UNCHANGED <<poolVars, idVars, taskVars>>
    /\ UNCHANGED <<nonces, nmClosePool, nmFound, nn, nhist, directVars, gasVars, restVars>>

\* close_pool() of __aexit__ returns: the session is over.
NonceLeft ==
    /\ nmPhase = "leaving" /\ pc[Manager] = "done"
    /\ Return(Manager)
    /\ nmPhase' = "out"
    /\ UNCHANGED <<nonces, nmClosePool, nmFound, nn, nhist, directVars, gasVars, restVars>>

\* ------------------------------------------------------------ next_nonce of several tasks
\* The rest of the program, which next_nonce leaves alone.
SharedFrame ==
    UNCHANGED <<nmClosePool, nmPhase, nmFound, nn, nhist, directVars, gasVars,
                suggestVars, recvVars, fillVars, naiveVars, wireVars, receiptVars>>

\* next_nonce(a) called by worker t on the NonceManager the workers share,
\* up to its suspension or its return: the test `address not in self.nonces`,
\* then the request or the increment.
SharedNextNonce(t, a) ==
    /\ nc[t].pc = "idle" /\ pc[t] = "idle"
    /\ Len(returned[a]) < MaxCalls
    /\ IF a \notin DOMAIN nonces
       THEN /\ CallBegin(t, 0)
            /\ nc' = [nc EXCEPT ![t] = [NoNonceCall EXCEPT !.pc = "seeding", !.addr = a]]
            /\ UNCHANGED <<nonces, returned>>
       ELSE /\ nonces' = [nonces EXCEPT ![a] = @ + 1]
            /\ nc' = [nc EXCEPT ![t] = [pc |-> "done", addr |-> a, ret |-> nonces[a] + 1,
                                        err |-> FALSE]]
            /\ returned' = [returned EXCEPT ![a] = Append(@, nonces[a] + 1)]
            /\ UNCHANGED <<poolVars, idVars, taskVars>>
    /\ UNCHANGED chain
    /\ SharedFrame

\* get_transaction_count of worker t returns the count c of the chain (the
\* same for every request of the run): self.nonces[address] = c, and c is
\* returned; or the request raised.
SharedSeeded(t, c) ==
    /\ nc[t].pc = "seeding" /\ pc[t] = "done"
    /\ chain[nc[t].addr] \in {NoId, c}
    /\ Return(t)
    /\ IF res[t] = "ok"
       THEN /\ nonces' = WithNonce(nonces, nc[t].addr, c)
            /\ nc' = [nc EXCEPT ![t].pc = "done", ![t].ret = c]
            /\ returned' = [returned EXCEPT ![nc[t].addr] = Append(@, c)]
            /\ chain' = [chain EXCEPT ![nc[t].addr] = c]
       ELSE /\ nc' = [nc EXCEPT ![t].pc = "done", ![t].err = TRUE]
            /\ UNCHANGED <<nonces, returned, chain>>
    /\ SharedFrame

\* The caller takes the nonce (or the exception).
SharedReturn(t) ==
    /\ nc[t].pc = "done"
    /\ nc' = [nc EXCEPT ![t] = NoNonceCall]
    /\ UNCHANGED <<nonces, returned, chain, poolVars, idVars, taskVars>>
    /\ SharedFrame

\* ------------------------------------------------------------ NonceManager.fill_transaction
\* hex(n) of Python for n >= 0, which HexStr(n) is for an integer.
HexDigits == <<"0", "1", "2", "3", "4", "5", "6", "7", "8", "9", "a", "b", "c", "d", "e", "f">>
RECURSIVE HexTail(_)
HexTail(n) == IF n < 16 THEN HexDigits[n + 1] ELSE HexTail(n \div 16) \o HexDigits[(n % 16) + 1]
Hex(n) == "0x" \o HexTail(n)

\* The transactions given to fill_transaction: dictionaries with a sender,
\* a value and no nonce yet; the lists of them.
NoNonce == "unset"
TxOf(a) == [from |-> a, value |-> "0x1", nonce |-> NoNonce]
TxLists == UNION {[1..n -> {TxOf(a) : a \in Addrs}] : n \in 0..MaxList}

\* fill_transaction(tx) up to its first next_nonce: a list is walked from its
\* first element, a single transaction is the only element, None and the
\* empty list return at once.
FillBegin(kind, txs) ==
    /\ fill.pc \in {"idle", "done", "raised"} /\ nn.pc = "idle" /\ pc[Manager] = "idle"
    /\ nmPhase \in {"out", "in"}
    /\ kind = "none" => txs = <<>>
    /\ kind = "single" => Len(txs) = 1
    /\ fill' = [kind |-> kind, txs |-> txs, pos |-> 0,
                pc |-> IF txs = <<>> THEN "done" ELSE "filling"]
    /\ UNCHANGED <<poolVars, idVars, taskVars, directVars, nonceVars, gasVars, suggestVars, recvVars, naiveVars, laterVars>>

\* `await self.next_nonce(sub_tx["from"])` for the element the loop is at.
FillNext ==
    /\ fill.pc = "filling"
    /\ NextNonce(fill.txs[fill.pos + 1].from)

\* Mutant: the nonce is written into every transaction of that sender.
FillWriteSender ==
    /\ fill.pc = "filling" /\ nn.pc = "done" /\ ~nn.err
    /\ fill' = [fill EXCEPT
                  !.txs = [i \in DOMAIN @ |->
                             IF @[i].from = nn.addr THEN [@[i] EXCEPT !.nonce = Hex(nn.ret)] ELSE @[i]],
                  !.pos = @ + 1,
                  !.pc = IF fill.pos + 1 = Len(fill.txs) THEN "done" ELSE "filling"]
    /\ nn' = NoNonceCall
    /\ UNCHANGED <<poolVars, idVars, taskVars, directVars, gasVars, suggestVars, recvVars, naiveVars, laterVars>>
    /\ UNCHANGED <<nonces, nmClosePool, nmPhase, nmFound, nhist>>

\* next_nonce returned n: sub_tx["nonce"] = HexStr(n), then the next element
\* of the list, or the end of fill_transaction.
FillWrite ==
    /\ fill.pc = "filling" /\ nn.pc = "done" /\ ~nn.err
    /\ fill' = [fill EXCEPT
                  !.txs[fill.pos + 1].nonce = Hex(nn.ret),
                  !.pos = @ + 1,
                  !.pc = IF fill.pos + 1 = Len(fill.txs) THEN "done" ELSE "filling"]
    /\ nn' = NoNonceCall
    /\ UNCHANGED <<poolVars, idVars, taskVars, directVars, gasVars, suggestVars, recvVars, naiveVars, laterVars>>
    /\ UNCHANGED <<nonces, nmClosePool, nmPhase, nmFound, nhist>>

\* next_nonce raised: the exception leaves fill_transaction, the elements
\* from this one on are not written.
FillRaise ==
    /\ fill.pc = "filling" /\ nn.pc = "done" /\ nn.err
    /\ fill' = [fill EXCEPT !.pc = "raised"]
    /\ nn' = NoNonceCall
    /\ UNCHANGED <<poolVars, idVars, taskVars, directVars, gasVars, suggestVars, recvVars, naiveVars, laterVars>>
    /\ UNCHANGED <<nonces, nmClosePool, nmPhase, nmFound, nhist>>

\* ------------------------------------------------------------ gas managers
\* fail_multiplier = 1.25 and success_multiplier = 0.95 as fractions.
FailNum == 5
FailDen == 4
SuccessNum == 19
SuccessDen == 20

\* int(multiplier * p) for the multiplier num / den and a price p >= 0.
IntTimes(num, den, p) == (num * p) \div den

\* round(multiplier * p), the rounding of the estimators: to the nearest
\* integer, a half to the even neighbour.
RoundTimes(num, den, p) ==
    LET q == (num * p) \div den
        twice == 2 * ((num * p) % den)
    IN  IF twice < den THEN q
        ELSE IF twice > den THEN q + 1
        ELSE IF q % 2 = 0 THEN q ELSE q + 1

Max(a, b) == IF a >= b THEN a ELSE b
Min(a, b) == IF a <= b THEN a ELSE b

\* InformedGasManager.gas_fail on the estimate pr.
GasFailPrices(pr) == [pr EXCEPT !.gas = IntTimes(FailNum, FailDen, @)]

\* Mutant: execution_fail that leaves maxFeePerGas alone.
ExecutionFailOnlyPriority(pr) ==
    [pr EXCEPT !.maxPriorityFeePerGas = IntTimes(FailNum, FailDen, @)]

\* InformedGasManager.execution_fail on the estimate pr.
ExecutionFailPrices(pr) ==
    LET p == IntTimes(FailNum, FailDen, pr.maxPriorityFeePerGas)
    IN  [pr EXCEPT !.maxPriorityFeePerGas = p, !.maxFeePerGas = Max(@, p)]

\* InformedGasManager.execution_success on the estimate pr.
ExecutionSuccessPrices(pr) ==
    LET p == IntTimes(SuccessNum, SuccessDen, pr.maxPriorityFeePerGas)
    IN  [pr EXCEPT !.maxPriorityFeePerGas = p, !.maxFeePerGas = Max(@, p)]

\* fill_transaction: every fee field is min(value, ceiling of the field).
Filled(pr, ceil) == [f \in Fields |-> Min(pr[f], ceil[f])]

\* The ceilings of the manager object of a session: naive_manager and
\* informed_manager construct it without ceilings, so each is the default.
SessionCeilings == [f \in Fields |-> DefaultCeiling]

\* The ceilings given to the GasManager constructor.
GivenCeilings == [f \in Fields |-> GivenCeiling]

\* The rounded means of the latest block _set_initial_price can find, and
\* the values suggest() can return for a field.
Means ==
    { [gas |-> 5, maxFeePerGas |-> 4, maxPriorityFeePerGas |-> 4],
      [gas |-> 2, maxFeePerGas |-> 2, maxPriorityFeePerGas |-> 1] }
Suggestions == [Fields -> {3, MaxPrice}]

\* The estimate of a new informed session without initial_* arguments: the
\* block mean, replaced by the stored estimate of a field when that is not 0.
InitialPrices(mean, st) == [f \in Fields |-> IF st[f] # 0 THEN st[f] ELSE mean[f]]

\* A session of the GasManager can be opened / its body runs.
GasIdle == gmPhase = "out" /\ nmPhase = "out" /\ nn.pc = "idle" /\ pc[Manager] = "idle"
InSession(kind) == gmPhase = "in" /\ gmKind = kind /\ pc[Manager] = "idle"

\* GasManager.naive_manager() up to the yield or its suspension in start_pool.
NaiveManagerEnter ==
    /\ GasIdle
    /\ gmKind' = "naive"
    /\ gmConnected' = connected
    /\ gmFound' = IF connected THEN "running" ELSE "stopped"
    /\ IF connected
       THEN /\ gmPhase' = "in"
            /\ UNCHANGED <<poolVars, idVars, taskVars>>
       ELSE /\ StartPool(Manager)
            /\ gmPhase' = "entering"
    /\ UNCHANGED <<stored, prices, tx, hook, informedBefore, directVars, nonceVars, restVars>>

\* GasManager.informed_manager() up to its first suspension: a new
\* InformedGasManager, and _set_initial_price asks for the latest block with
\* a pooled call.
InformedManagerEnter ==
    /\ GasIdle
    /\ CallBegin(Manager, 0)
    /\ gmKind' = "informed"
    /\ gmPhase' = "pricing"
    /\ gmFound' = IF connected THEN "running" ELSE "stopped"
    /\ prices' = ZeroPrices
    /\ hook' = NoHook
    /\ UNCHANGED <<gmConnected, stored, tx, informedBefore, directVars, nonceVars, restVars>>

\* _set_initial_price returns with the means of the block, the stored
\* estimate is taken over, and `connected = informed.rpc.pool_connected()`;
\* or the call raises and informed_manager with it.
InformedPriced(mean) ==
    /\ gmPhase = "pricing" /\ pc[Manager] = "done"
    /\ Return(Manager)
    /\ IF res[Manager] = "ok"
       THEN /\ prices' = InitialPrices(mean, stored)
            /\ hook' = [name |-> "initial", before |-> ZeroPrices]
            /\ gmConnected' = connected
            /\ gmPhase' = "priced"
            /\ UNCHANGED gmKind
       ELSE /\ gmPhase' = "out"
            /\ gmKind' = "none"
            /\ UNCHANGED <<prices, hook, gmConnected>>
    /\ UNCHANGED <<gmFound, stored, tx, informedBefore, directVars, nonceVars, restVars>>

\* informed_manager: `if not connected: await start_pool()`, then the yield.
InformedYield ==
    /\ gmPhase = "priced" /\ pc[Manager] = "idle"
    /\ IF gmConnected
       THEN /\ gmPhase' = "in"
            /\ UNCHANGED <<poolVars, idVars, taskVars>>
       ELSE /\ StartPool(Manager)
            /\ gmPhase' = "entering"
    /\ UNCHANGED <<gmKind, gmConnected, gmFound, stored, prices, tx, hook, informedBefore,
                   directVars, nonceVars, restVars>>

\* start_pool() of the session returns: the yield.
ManagerEntered ==
    /\ gmPhase = "entering" /\ pc[Manager] = "done"
    /\ Return(Manager)
    /\ gmPhase' = "in"
    /\ UNCHANGED <<gmKind, gmConnected, gmFound, stored, prices, tx, hook, informedBefore,
                   directVars, nonceVars, restVars>>

\* A feedback hook of the InformedGasManager of the session.
Feedback(name, new) ==
    /\ InSession("informed")
    /\ \A f \in Fields : new[f] <= MaxPrice
    /\ prices' = new
    /\ hook' = [name |-> name, before |-> prices]
    /\ UNCHANGED <<gmPhase, gmKind, gmConnected, gmFound, stored, tx, informedBefore,
                   directVars, nonceVars, restVars>>
    /\ UNCHANGED <<poolVars, idVars, taskVars>>

GasFail == Feedback("gas_fail", GasFailPrices(prices))
ExecutionFail == Feedback("execution_fail", ExecutionFailPrices(prices))
ExecutionSuccess == Feedback("execution_success", ExecutionSuccessPrices(prices))

\* InformedGasManager.fill_transaction(tx).
InformedFill ==
    /\ InSession("informed")
    /\ tx' = Filled(prices, SessionCeilings)
    /\ UNCHANGED <<gmPhase, gmKind, gmConnected, gmFound, stored, prices, hook, informedBefore,
                   directVars, nonceVars, restVars>>
    /\ UNCHANGED <<poolVars, idVars, taskVars>>

\* NaiveGasManager.fill_transaction(tx) up to its suspension: suggest asks
\* for the latest block with a pooled call.
NaiveFill ==
    /\ InSession("naive")
    /\ CallBegin(Manager, 0)
    /\ gmPhase' = "filling"
    /\ UNCHANGED <<gmKind, gmConnected, gmFound, stored, prices, tx, hook, informedBefore,
                   directVars, nonceVars, restVars>>

\* The block is there and the three suggestions sug are written, each under
\* its ceiling; or the call raised and nothing is written.
NaiveFilled(sug) ==
    /\ gmPhase = "filling" /\ pc[Manager] = "done"
    /\ Return(Manager)
    /\ tx' = IF res[Manager] = "ok" THEN Filled(sug, SessionCeilings) ELSE tx
    /\ gmPhase' = "in"
    /\ UNCHANGED <<gmKind, gmConnected, gmFound, stored, prices, hook, informedBefore,
                   directVars, nonceVars, restVars>>

\* The finally block of naive_manager / informed_manager, run when the body
\* ends or raises: the estimate is stored, and a pool the session did not
\* find connected is closed.  The transaction of the body goes out of scope.
ManagerExit ==
    /\ gmPhase = "in" /\ pc[Manager] = "idle"
    /\ stored' = IF gmKind = "informed" THEN prices ELSE stored
    /\ informedBefore' = (informedBefore \/ gmKind = "informed")
    /\ tx' = ZeroPrices
    /\ IF gmConnected
       THEN /\ gmPhase' = "out"
            /\ UNCHANGED <<poolVars, idVars, taskVars>>
       ELSE /\ ClosePool(Manager)
            /\ gmPhase' = "leaving"
    /\ UNCHANGED <<gmKind, gmConnected, gmFound, prices, hook, directVars, nonceVars, restVars>>

\* close_pool() of the finally block returns: the session is over.
ManagerLeft ==
    /\ gmPhase = "leaving" /\ pc[Manager] = "done"
    /\ Return(Manager)
    /\ gmPhase' = "out"
    /\ UNCHANGED <<gmKind, gmConnected, gmFound, stored, prices, tx, hook, informedBefore,
                   directVars, nonceVars, restVars>>

\* ------------------------------------------------------------ NaiveGasManager.suggest
\* The prices of one attribute in the transactions of a block.
SampleValues == {10, 20, 30}
Samples == UNION { [1..n -> SampleValues] : n \in 1..MaxSample }

\* The strategies followed (median, mode and custom are left out).
Strategies ==
    {"min_price", "max_price", "mean_price", "upper_quartile_price", "lower_quartile_price"}

RECURSIVE Sum(_)
Sum(s) == IF s = <<>> THEN 0 ELSE Head(s) + Sum(Tail(s))

RECURSIVE Insert(_, _)
Insert(x, s) ==
    IF s = <<>> THEN <<x>>
    ELSE IF x <= Head(s) THEN <<x>> \o s
    ELSE <<Head(s)>> \o Insert(x, Tail(s))

\* sorted(data)
RECURSIVE Sorted(_)
Sorted(s) == IF s = <<>> THEN <<>> ELSE Insert(Head(s), Sorted(Tail(s)))

SeqMin(s) == Sorted(s)[1]
SeqMax(s) == Sorted(s)[Len(s)]

\* round(statistics.mean(data))
RoundMean(s) == RoundTimes(Sum(s), Len(s), 1)

\* statistics.quantiles(data, n=4)[i - 1] of at least two data points (the
\* default method "exclusive"), times 4.
Quantile4(s, i) ==
    LET data == Sorted(s)
        ld == Len(s)
        m == ld + 1
        j0 == (i * m) \div 4
        j == IF j0 < 1 THEN 1 ELSE IF j0 > ld - 1 THEN ld - 1 ELSE j0
        delta == i * m - j * 4
    IN  data[j] * (4 - delta) + data[j + 1] * delta

\* The quartile strategies of suggest: statistics.quantiles raises
\* StatisticsError below two data points, and then the mean is taken.
RoundQuartile(s, i) ==
    IF Len(s) < 2 THEN RoundMean(s) ELSE RoundTimes(Quantile4(s, i), 4, 1)

\* What suggest(strategy, attribute) returns for the prices s.
Suggest(st, s) ==
    CASE st = "min_price" -> SeqMin(s)
      [] st = "max_price" -> SeqMax(s)
      [] st = "mean_price" -> RoundMean(s)
      [] st = "upper_quartile_price" -> RoundQuartile(s, 3)
      [] st = "lower_quartile_price" -> RoundQuartile(s, 1)

\* NaiveGasManager.suggest(st, attribute, use_stored_results=True) on stored
\* transactions whose prices of the attribute are s.
SuggestCall(st, s) ==
    /\ sample' = s
    /\ strategy' = st
    /\ suggested' = Suggest(st, s)
    /\ UNCHANGED <<poolVars, idVars, taskVars, directVars, nonceVars, gasVars, recvVars, fillVars, naiveVars, laterVars>>

\* ------------------------------------------------------------ NaiveGasManager.fill_transaction
\* The transactions of the latest block the peer can return: none, one with
\* every fee field, two of which one has no priority fee, and one legacy
\* transaction (gas only).
BlockTx(g, f, p) == [gas |-> g, maxFeePerGas |-> f, maxPriorityFeePerGas |-> p]
Blocks ==
    { <<>>,
      <<BlockTx(2, 3, 1)>>,
      <<BlockTx(7, 5, 4), BlockTx(5, 5, NoPrice)>>,
      <<BlockTx(3, NoPrice, NoPrice)>> }

\* The strategies a fill_transaction is called with.
FillStrategies == {"mean_price", "max_price"}

\* suggest: the values of the attribute that are not None.
PricesOf(txs, f) ==
    LET keep == SelectSeq(txs, LAMBDA x : x[f] # NoPrice)
    IN  [i \in 1..Len(keep) |-> keep[i][f]]

\* suggest(strategy, attribute) raises on the transactions b: there are none
\* stored (len(None)), the block is empty (_get_latest_receipts raises), or no
\* transaction has the attribute (min, max and mean of an empty list raise).
SuggestRaises(b, f) == ~b.set \/ b.txs = <<>> \/ PricesOf(b.txs, f) = <<>>

\* tx[f] = min(await suggest(strategy, f), ceiling of f)
WriteField(t0, b, f, st) ==
    [t0 EXCEPT ![f] = Min(Suggest(st, PricesOf(b.txs, f)), SessionCeilings[f])]

\* The three assignments of fill_transaction in their order, the first from
\* the transactions `first` and the two others from `rest`, up to the first
\* suggest that raises.
NaiveWrite(t0, first, rest, st) ==
    IF SuggestRaises(first, "gas") THEN [tx |-> t0, ok |-> FALSE]
    ELSE LET t1 == WriteField(t0, first, "gas", st)
         IN  IF SuggestRaises(rest, "maxFeePerGas") THEN [tx |-> t1, ok |-> FALSE]
             ELSE LET t2 == WriteField(t1, rest, "maxFeePerGas", st)
                  IN  IF SuggestRaises(rest, "maxPriorityFeePerGas")
                      THEN [tx |-> t2, ok |-> FALSE]
                      ELSE [tx |-> WriteField(t2, rest, "maxPriorityFeePerGas", st),
                            ok |-> TRUE]

\* What a fill_transaction leaves behind after NaiveWrite returned w.
NaiveEnded(c, w, b) ==
    [c EXCEPT !.pc = IF w.ok THEN "done" ELSE "raised", !.tx = w.tx, !.got = b]

\* fill_transaction(tx, strategy, use_stored) of worker t, up to its first
\* suspension: with use_stored the three suggestions are read from
\* latest_transactions without a suspension; without it, suggest asks for
\* the latest block with a pooled call.
NaiveFillBegin(t, st, useStored) ==
    /\ nf[t].pc = "idle" /\ pc[t] = "idle"
    /\ IF useStored
       THEN /\ nf' = [nf EXCEPT ![t] =
                        NaiveEnded([NoNaive EXCEPT !.st = st, !.stored = TRUE],
                                   NaiveWrite(NoTx, latest, latest, st), latest)]
            /\ UNCHANGED <<poolVars, idVars, taskVars>>
       ELSE /\ CallBegin(t, 0)
            /\ nf' = [nf EXCEPT ![t] = [NoNaive EXCEPT !.pc = "fetching", !.st = st]]
    /\ UNCHANGED <<latest, directVars, nonceVars, gasVars, suggestVars, recvVars, fillVars, laterVars>>

\* The fill_transaction calls that are suspended in the request when the
\* call of t stores its block: their `crossed` is set (history).
Crossed(t) ==
    [x \in Workers |->
        IF x # t /\ nf[x].pc = "fetching" THEN [nf[x] EXCEPT !.crossed = TRUE] ELSE nf[x]]

\* Mutant: the two later suggestions read the transactions that were stored
\* before this request.
NaiveFetchedStale(t, b) ==
    /\ nf[t].pc = "fetching" /\ pc[t] = "done"
    /\ Return(t)
    /\ IF res[t] = "ok"
       THEN LET new == [set |-> TRUE, txs |-> b]
                old == IF latest.set THEN latest ELSE new
            IN  /\ latest' = new
                /\ nf' = [Crossed(t) EXCEPT ![t] =
                            NaiveEnded(@, NaiveWrite(@.tx, new, old, @.st), new)]
       ELSE /\ nf' = [nf EXCEPT ![t].pc = "raised"]
            /\ UNCHANGED latest
    /\ UNCHANGED <<directVars, nonceVars, gasVars, suggestVars, recvVars, fillVars, laterVars>>

\* get_block_by_number returns the block b: latest_transactions = b, the gas
\* suggestion is computed from the local `transactions`, and the two
\* suggestions with use_stored_results=True read latest_transactions; none
\* of them suspends.  Or the request raised and fill_transaction with it.
NaiveFetched(t, b) ==
    /\ nf[t].pc = "fetching" /\ pc[t] = "done"
    /\ Return(t)
    /\ IF res[t] = "ok"
       THEN LET new == [set |-> TRUE, txs |-> b]
            IN  /\ latest' = new
                /\ nf' = [Crossed(t) EXCEPT ![t] =
                            NaiveEnded(@, NaiveWrite(@.tx, new, latest', @.st), new)]
       ELSE /\ nf' = [nf EXCEPT ![t].pc = "raised"]
            /\ UNCHANGED latest
    /\ UNCHANGED <<directVars, nonceVars, gasVars, suggestVars, recvVars, fillVars, laterVars>>

\* The caller goes on after fill_transaction (with the transaction, or with
\* the exception).
NaiveTake(t) ==
    /\ nf[t].pc \in {"done", "raised"}
    /\ nf' = [nf EXCEPT ![t] = NoNaive]
    /\ UNCHANGED <<latest, poolVars, idVars, taskVars>>
    /\ UNCHANGED <<directVars, nonceVars, gasVars, suggestVars, recvVars, fillVars, laterVars>>

\* ------------------------------------------------------------ Subscription.recv
\* decode_function of a new_pending_transactions subscription: HexStr(data).
Decode(v) == [type |-> "HexStr", data |-> v]

\* The frame every step of the iteration keeps.
RecvFrame == UNCHANGED <<poolVars, idVars, taskVars, directVars, nonceVars, gasVars, suggestVars, fillVars, naiveVars, laterVars>>

\* `sc.recv()` on a Subscription constructed with max_message_num = n: an
\* async generator is created; nothing of its body runs yet.
RecvCreate(n) ==
    /\ gen = "none"
    /\ maxMessageNum' = n
    /\ gen' = "created"
    /\ counter' = 0
    /\ UNCHANGED <<inbound, yielded>>
    /\ RecvFrame

\* Mutant: a loop test `counter <= self.max_message_num`.
RecvNextInclusive ==
    /\ gen \in {"created", "yielded"}
    /\ (maxMessageNum = 0 - 1) => Len(inbound) < MaxRead
    /\ gen' = IF maxMessageNum = 0 - 1 \/ counter <= maxMessageNum THEN "reading" ELSE "exhausted"
    /\ counter' = IF gen = "created" THEN 0 ELSE counter
    /\ UNCHANGED <<maxMessageNum, inbound, yielded>>
    /\ RecvFrame

\* The consumer asks for the next value: the generator starts (counter = 0)
\* or resumes after its yield, and the loop test sends it into
\* `await self.socket.recv()` or ends it.
RecvNext ==
    /\ gen \in {"created", "yielded"}
    /\ (maxMessageNum = 0 - 1) => Len(inbound) < MaxRead
    /\ gen' = IF maxMessageNum = 0 - 1 \/ counter < maxMessageNum THEN "reading" ELSE "exhausted"
    /\ counter' = IF gen = "created" THEN 0 ELSE counter
    /\ UNCHANGED <<maxMessageNum, inbound, yielded>>
    /\ RecvFrame

\* socket.recv() returns the message o: parse_results raises, or the counter
\* goes up and the decoded result is yielded.
RecvMessage(o) ==
    /\ gen = "reading"
    /\ inbound' = Append(inbound, o)
    /\ IF ParseObject(o).kind = "return"
       THEN /\ counter' = counter + 1
            /\ yielded' = Append(yielded, Decode(ParseObject(o).value))
            /\ gen' = "yielded"
       ELSE /\ gen' = "raised"
            /\ UNCHANGED <<counter, yielded>>
    /\ UNCHANGED maxMessageNum
    /\ RecvFrame

\* The consumer drops the generator (its loop ended, or it left the loop).
RecvDrop ==
    /\ gen \in {"created", "yielded", "exhausted", "raised"}
    /\ gen' = "none"
    /\ counter' = 0
    /\ inbound' = <<>>
    /\ yielded' = <<>>
    /\ UNCHANGED maxMessageNum
    /\ RecvFrame

\* ------------------------------------------------------------ messages on a pooled connection
\* What parse_results makes of the message m: a push message has params and
\* no result member, so it is an invalid return unless is_subscription is
\* set, and then the result member of its params is returned.
ParseAs(m, isSubscription) ==
    IF m.kind = "push" THEN (IF isSubscription THEN "result" ELSE "neither") ELSE "result"

\* The rest of the program, which the steps on a pooled connection leave alone.
WireFrame == UNCHANGED <<directVars, nonceVars, gasVars, suggestVars, recvVars, fillVars, naiveVars,
                       sharedVars, receiptVars>>

Sent(t, kind, id) == inbox' = [inbox EXCEPT ![held[t]] = Append(@, Msg(kind, id))]
Read(t) == inbox' = [inbox EXCEPT ![held[t]] = Tail(@)]

\* A call without a websocket argument: the envelope is built, then get_socket.
WireCallBegin(t) ==
    /\ CallBegin(t, 0)
    /\ reqId' = [reqId EXCEPT ![t] = BuildJson(rpcId).ids[1]]
    /\ got' = [got EXCEPT ![t] = NoMsg]
    /\ UNCHANGED <<inbox, peerSub>>
    /\ WireFrame

\* `await ws.send(built_msg)`: the peer answers the envelope on that connection.
WireCallSend(t, ok) ==
    /\ CallSend(t, ok)
    /\ IF ok THEN Sent(t, "result", reqId[t]) ELSE UNCHANGED inbox
    /\ UNCHANGED <<peerSub, reqId, got>>
    /\ WireFrame

\* `msg = await ws.recv()`: the oldest unread message of the connection.
WireCallRecv(t) ==
    /\ pc[t] = "recv"
    /\ inbox[held[t]] # <<>>
    /\ CallRecv(t, ParseAs(Head(inbox[held[t]]), FALSE))
    /\ Read(t)
    /\ got' = [got EXCEPT ![t] = Head(inbox[held[t]])]
    /\ UNCHANGED <<peerSub, reqId>>
    /\ WireFrame

\* eth_subscribe is sent: the peer answers it and holds the subscription.
WireSubSend(t, ok) ==
    /\ SubSend(t, ok)
    /\ IF ok
       THEN /\ Sent(t, "subscribed", BuildJson(rpcId).ids[1])
            /\ peerSub' = [peerSub EXCEPT ![held[t]] = TRUE]
            /\ reqId' = [reqId EXCEPT ![t] = BuildJson(rpcId).ids[1]]
       ELSE UNCHANGED <<inbox, peerSub, reqId>>
    /\ UNCHANGED got
    /\ WireFrame

\* The recv of _get_subscription (is_subscription is not set).
WireSubRecv(t) ==
    /\ pc[t] = "sub_recv"
    /\ inbox[held[t]] # <<>>
    /\ SubRecv(t, ParseAs(Head(inbox[held[t]]), FALSE))
    /\ Read(t)
    /\ got' = [got EXCEPT ![t] = Head(inbox[held[t]])]
    /\ UNCHANGED <<peerSub, reqId>>
    /\ WireFrame

\* The peer pushes a message of a subscription it holds.
Push(c) ==
    /\ peerSub[c]
    /\ Len(inbox[c]) < MaxInbox
    /\ inbox' = [inbox EXCEPT ![c] = Append(@, Msg("push", NoId))]
    /\ UNCHANGED <<peerSub, reqId, got, poolVars, idVars, taskVars>>
    /\ WireFrame

\* One pass of Subscription.recv in the body reads the oldest unread message.
WireBodyRecv(t) ==
    /\ pc[t] = "body"
    /\ inbox[held[t]] # <<>>
    /\ BodyRecv(t)
    /\ Read(t)
    /\ UNCHANGED <<peerSub, reqId, got>>
    /\ WireFrame

\* The finally block of subscribe: eth_unsubscribe is sent, the peer answers
\* it and drops the subscription.  (A send that fails is a connection that
\* is gone: the peer pushes nothing more on it.)
WireBodyExit(t, how, ok) ==
    /\ BodyExit(t, how, ok)
    /\ peerSub' = [peerSub EXCEPT ![held[t]] = FALSE]
    /\ IF ~Rejected(subId[t]) /\ ok
       THEN /\ Sent(t, "unsubscribed", BuildJson(rpcId).ids[1])
            /\ reqId' = [reqId EXCEPT ![t] = BuildJson(rpcId).ids[1]]
       ELSE UNCHANGED <<inbox, reqId>>
    /\ UNCHANGED got
    /\ WireFrame

\* The recv of _unsubscribe (is_subscription is set).
WireUnsubRecv(t) ==
    /\ pc[t] = "unsub_recv"
    /\ inbox[held[t]] # <<>>
    /\ UnsubRecv(t, ParseAs(Head(inbox[held[t]]), TRUE))
    /\ Read(t)
    /\ got' = [got EXCEPT ![t] = Head(inbox[held[t]])]
    /\ UNCHANGED <<peerSub, reqId>>
    /\ WireFrame

\* ------------------------------------------------------------ get_transaction_receipt on the pool
\* Replies of the peer to eth_getTransactionReceipt: "null" is a response
\* whose result member is null (no receipt yet).
ReceiptReplies == {"null", "result", "error", "closed"}

\* parse_results on such a reply: res["result"], which is None for "null".
ReceiptParse(r) == IF r = "null" THEN "None" ELSE ParseResults(r)

\* The rest of the program, which get_transaction_receipt leaves alone.
ReceiptFrame ==
    UNCHANGED <<directVars, nonceVars, gasVars, suggestVars, recvVars, fillVars, naiveVars,
                wireVars, sharedVars>>

\* get_transaction_receipt(tx_hash, retries = r) without a websocket, called
\* by task t, up to its first suspension: the first _send_message builds its
\* envelope and enters get_socket.
ReceiptBegin(t, r) ==
    /\ pc[t] = "idle"
    /\ rpcId + 1 + Reserved <= MaxId
    /\ op' = [op EXCEPT ![t] = "receipt"]
    /\ receipt' = [receipt EXCEPT ![t] = [retries |-> r, inLoop |-> FALSE]]
    /\ rpcId' = BuildJson(rpcId).next
    /\ envIds' = envIds \o BuildJson(rpcId).ids
    /\ EnterGetSocket(t, "receipt")
    /\ UNCHANGED <<otherId, mine, subId, cnt, closing, res>>
    /\ ReceiptFrame

\* `await ws.send(built_msg)` of an attempt: sent, or the send fails and the
\* exception leaves the with block and get_transaction_receipt.
ReceiptSend(t, ok) ==
    /\ pc[t] = "send" /\ op[t] = "receipt"
    /\ IF ok
       THEN /\ pc' = [pc EXCEPT ![t] = "recv"]
            /\ UNCHANGED <<poolVars, held, res, log>>
       ELSE LeaveGetSocket(t, "ConnectionClosed", log[t])
    /\ UNCHANGED <<idVars, op, mine, subId, cnt, closing, receipt>>
    /\ ReceiptFrame

\* Mutant: a loop of get_transaction_receipt that runs inside the with block,
\* so the sleep starts with the connection still leased.
ReceiptRecvHolds(t, r) ==
    /\ pc[t] = "recv" /\ op[t] = "receipt"
    /\ LET left == IF receipt[t].inLoop THEN receipt[t].retries - 1 ELSE receipt[t].retries
           again == r = "null" /\ left > 0
       IN  /\ receipt' = [receipt EXCEPT ![t].retries = left]
           /\ IF again
              THEN /\ pc' = [pc EXCEPT ![t] = "sleeping"]
                   /\ UNCHANGED <<poolVars, held, res, log>>
              ELSE LeaveGetSocket(t, ReceiptParse(r), log[t])
    /\ UNCHANGED <<idVars, op, mine, subId, cnt, closing>>
    /\ ReceiptFrame

\* `msg = await ws.recv()` of an attempt returns or fails: the with block of
\* _send_message is left (the finally of get_socket puts the connection
\* back), parse_results returns or raises, an attempt of the loop is followed
\* by retries -= 1, and `msg is None and retries > 0` enters asyncio.sleep(1).
ReceiptRecv(t, r) ==
    /\ pc[t] = "recv" /\ op[t] = "receipt"
    /\ LET P == Release(PoolNow, held[t])
           left == IF receipt[t].inLoop THEN receipt[t].retries - 1 ELSE receipt[t].retries
           again == P.exc = "none" /\ r = "null" /\ left > 0
       IN  /\ SetPool(P)
           /\ SetPc(t, IF again THEN "sleeping" ELSE "done", P)
           /\ held' = [held EXCEPT ![t] = NoConn]
           /\ res' = [res EXCEPT ![t] = IF P.exc # "none" THEN P.exc
                                        ELSE IF again THEN @ ELSE ReceiptParse(r)]
           /\ log' = [log EXCEPT ![t] =
                        Append(@, Ev(IF P.exc = "none" THEN "put" ELSE "lost", held[t], NoSub))]
           /\ receipt' = [receipt EXCEPT ![t].retries = left]
    /\ UNCHANGED <<connected, open, idVars, op, mine, subId, cnt, closing>>
    /\ ReceiptFrame

\* asyncio.sleep(1) returns: the next _send_message of the loop builds its
\* envelope and enters get_socket.
ReceiptWake(t) ==
    /\ pc[t] = "sleeping"
    /\ rpcId + 1 + Reserved <= MaxId
    /\ receipt' = [receipt EXCEPT ![t].inLoop = TRUE]
    /\ rpcId' = BuildJson(rpcId).next
    /\ envIds' = envIds \o BuildJson(rpcId).ids
    /\ EnterGetSocket(t, "receipt")
    /\ UNCHANGED <<otherId, op, mine, subId, cnt, closing, res>>
    /\ ReceiptFrame

\* The caller takes the outcome of its call or of its get_transaction_receipt.
ReceiptReturn(t) ==
    /\ Return(t)
    /\ receipt' = [receipt EXCEPT ![t] = NoReceipt]
    /\ ReceiptFrame

\* ------------------------------------------------------------ specifications
\* The steps every specification shares: what a running operation does next.
\* The steps of the pool and of its tasks leave the rest of the program alone.
ExtIdle == UNCHANGED extVars

Continue ==
    \/ \E t \in Tasks : GetRetry(t) /\ ExtIdle
    \/ \E t \in Tasks, ok \in BOOLEAN : CallSend(t, ok) /\ ExtIdle
    \/ \E t \in Tasks, r \in Replies : CallRecv(t, r) /\ ExtIdle
    \/ \E t \in Tasks, ok \in BOOLEAN : SubSend(t, ok) /\ ExtIdle
    \/ \E t \in Tasks, r \in Replies : SubRecv(t, r) /\ ExtIdle
    \/ \E t \in Tasks : BodyRecv(t) /\ ExtIdle
    \/ \E t \in Tasks, how \in BodyEnds, ok \in BOOLEAN : BodyExit(t, how, ok) /\ ExtIdle
    \/ \E t \in Tasks, r \in Replies : UnsubRecv(t, r) /\ ExtIdle
    \/ \E t \in Tasks : CloseDone(t) /\ ExtIdle
    \/ \E t \in Tasks : StartConnected(t) /\ ExtIdle
    \/ \E t \in Tasks : StartFinish(t) /\ ExtIdle
    \/ \E t \in Tasks : Return(t) /\ ExtIdle

\* Spec: the workers call and subscribe, and the manager starts and closes
\* the pool, each at any time.
Next ==
    \/ \E t \in Workers, k \in 0..MaxBatch : CallBegin(t, k) /\ ExtIdle
    \/ \E t \in Workers : SubscribeBegin(t) /\ ExtIdle
    \/ StartPool(Manager) /\ ExtIdle
    \/ ClosePool(Manager) /\ ExtIdle
    \/ \E t \in Tasks, c \in Conns : PutRetry(t, c) /\ ExtIdle
    \/ Continue

Spec == Init /\ [][Next]_vars

ConnectedCall(t, k) == connected /\ CallBegin(t, k)
ConnectedSubscribe(t) == connected /\ SubscribeBegin(t)

\* SpecRestart: the workers call and subscribe on a pool they find connected;
\* the manager starts and closes the pool at any time, also while
\* connections are leased.
NextRestart ==
    \/ \E t \in Workers, k \in 0..MaxBatch : ConnectedCall(t, k) /\ ExtIdle
    \/ \E t \in Workers : ConnectedSubscribe(t) /\ ExtIdle
    \/ StartPool(Manager) /\ ExtIdle
    \/ ClosePool(Manager) /\ ExtIdle
    \/ \E t \in Tasks, c \in Conns : PutRetry(t, c) /\ ExtIdle
    \/ Continue

SpecRestart == Init /\ [][NextRestart]_vars

\* No operation is running.
Quiet == \A t \in Tasks : pc[t] \in {"idle", "done"}

\* The pool is started and neither start() nor quit() is running.
Serving == connected /\ \A t \in Tasks : op[t] \in {"start", "close"} => pc[t] = "done"

SteadyCall(t, k) == Serving /\ CallBegin(t, k)
SteadySubscribe(t) == Serving /\ SubscribeBegin(t)
SteadyStart == Quiet /\ StartPool(Manager)
SteadyClose == Quiet /\ ClosePool(Manager)

\* SpecSteady: the pool is started and closed only while no call and no
\* subscription is running, and calls are made on a started pool only.  A
\* second dispatcher instance is used alongside.
NextSteady ==
    \/ \E t \in Tasks, k \in 0..MaxBatch : SteadyCall(t, k) /\ ExtIdle
    \/ \E t \in Tasks : SteadySubscribe(t) /\ ExtIdle
    \/ SteadyStart /\ ExtIdle
    \/ SteadyClose /\ ExtIdle
    \/ \E k \in 0..MaxBatch : OtherCall(k) /\ ExtIdle
    \/ Continue

SpecSteady == Init /\ [][NextSteady]_vars

SteadyLease(t) == Serving /\ LeaseBegin(t)

\* SpecLease: clients of the pool lease connections again and again from a
\* pool that is started and closed only while no lease is out.
NextLease ==
    \/ \E t \in Tasks : SteadyLease(t) /\ ExtIdle
    \/ \E t \in Tasks : LeaseEnd(t) /\ ExtIdle
    \/ \E t \in Tasks : GetRetry(t) /\ ExtIdle
    \/ \E t \in Tasks : Return(t) /\ ExtIdle
    \/ SteadyStart /\ ExtIdle
    \/ SteadyClose /\ ExtIdle
    \/ \E t \in Tasks : CloseDone(t) /\ ExtIdle
    \/ \E t \in Tasks : StartConnected(t) /\ ExtIdle
    \/ \E t \in Tasks : StartFinish(t) /\ ExtIdle

\* The event loop runs every task that is ready, connect and close return,
\* and every client leaves its with block.  Nobody has to begin an operation.
FairLease ==
    \A t \in Tasks :
        /\ WF_vars(GetRetry(t) /\ ExtIdle)
        /\ WF_vars(LeaseEnd(t) /\ ExtIdle)
        /\ WF_vars(Return(t) /\ ExtIdle)
        /\ WF_vars(CloseDone(t) /\ ExtIdle)
        /\ WF_vars(StartConnected(t) /\ ExtIdle)
        /\ WF_vars(StartFinish(t) /\ ExtIdle)

SpecLease == Init /\ [][NextLease]_vars /\ FairLease

\* SpecDirect: one caller makes calls, one after the other, on a connection
\* it supplies; the peer answers every request, and a sleep returns.
NextDirect ==
    \/ \E m \in {"call", "receipt"}, shapes \in ParamLists, r \in 0..MaxRetries, ok \in BOOLEAN :
          DirectBegin(m, shapes, r, ok)
    \/ \E os \in PendingAnswers : DirectRecv(os)
    \/ DirectFail
    \/ \E ok \in BOOLEAN : DirectWake(ok)
    \/ DirectReturn

FairDirect ==
    /\ WF_vars(\E os \in PendingAnswers : DirectRecv(os))
    /\ WF_vars(\E ok \in BOOLEAN : DirectWake(ok))

SpecDirect == Init /\ [][NextDirect]_vars /\ FairDirect

\* The application starts or closes the pool of the dispatcher itself,
\* between the sessions of its managers.
AppIdle == nmPhase = "out" /\ nn.pc = "idle" /\ gmPhase = "out"
AppStart == AppIdle /\ SteadyStart /\ ExtIdle
AppClose == AppIdle /\ SteadyClose /\ ExtIdle
AppReturn == AppIdle /\ pc[Manager] = "done" /\ Return(Manager) /\ ExtIdle

\* SpecNonce: one task uses a NonceManager on the pooled dispatcher: scoped
\* sessions one after the other, next_nonce calls inside and outside of
\* them, and between sessions the application starts or closes the pool.
NextNonceManager ==
    \/ \E a \in Addrs : NextNonce(a)
    \/ \E c \in Counts : NonceSeeded(c)
    \/ NonceReturn
    \/ NonceEnter
    \/ NonceEntered
    \/ NonceExit
    \/ NonceLeft
    \/ AppStart
    \/ AppClose
    \/ AppReturn
    \/ \E ok \in BOOLEAN : CallSend(Manager, ok) /\ ExtIdle
    \/ \E r \in Replies : CallRecv(Manager, r) /\ ExtIdle
    \/ CloseDone(Manager) /\ ExtIdle
    \/ StartConnected(Manager) /\ ExtIdle
    \/ StartFinish(Manager) /\ ExtIdle

SpecNonce == Init /\ [][NextNonceManager]_vars

\* SpecFill: one task fills transactions with a NonceManager on the pooled
\* dispatcher, one fill_transaction after the other (None, one transaction,
\* lists), while the application starts or closes the pool in between.
NextFill ==
    \/ \E kind \in {"none", "single", "list"}, txs \in TxLists : FillBegin(kind, txs)
    \/ FillNext
    \/ \E c \in Counts : fill.pc = "filling" /\ NonceSeeded(c)
    \/ FillWrite
    \/ FillRaise
    \/ AppStart
    \/ AppClose
    \/ AppReturn
    \/ \E ok \in BOOLEAN : CallSend(Manager, ok) /\ ExtIdle
    \/ \E r \in Replies : CallRecv(Manager, r) /\ ExtIdle
    \/ CloseDone(Manager) /\ ExtIdle
    \/ StartConnected(Manager) /\ ExtIdle
    \/ StartFinish(Manager) /\ ExtIdle

SpecFill == Init /\ [][NextFill]_vars

\* SpecGas: one task uses a GasManager on the pooled dispatcher: naive and
\* informed sessions one after the other, and between sessions the
\* application starts or closes the pool.
NextGas ==
    \/ NaiveManagerEnter
    \/ InformedManagerEnter
    \/ \E mean \in Means : InformedPriced(mean)
    \/ InformedYield
    \/ ManagerEntered
    \/ GasFail
    \/ ExecutionFail
    \/ ExecutionSuccess
    \/ InformedFill
    \/ NaiveFill
    \/ \E sug \in Suggestions : NaiveFilled(sug)
    \/ ManagerExit
    \/ ManagerLeft
    \/ AppStart
    \/ AppClose
    \/ AppReturn
    \/ \E ok \in BOOLEAN : CallSend(Manager, ok) /\ ExtIdle
    \/ \E r \in Replies : CallRecv(Manager, r) /\ ExtIdle
    \/ CloseDone(Manager) /\ ExtIdle
    \/ StartConnected(Manager) /\ ExtIdle
    \/ StartFinish(Manager) /\ ExtIdle

SpecGas == Init /\ [][NextGas]_vars

\* SpecOverlap: one application uses a NonceManager session and a
\* naive_manager session of a GasManager on the same dispatcher; the
\* sessions may overlap without being nested (the gas session is entered
\* first, the NonceManager session inside or outside of it, and either of
\* them exits first).  Between sessions the application starts or closes
\* the pool.
NextOverlap ==
    \/ NaiveManagerEnter
    \/ ManagerEntered
    \/ ManagerExit
    \/ ManagerLeft
    \/ NonceEnter
    \/ NonceEntered
    \/ NonceExit
    \/ NonceLeft
    \/ AppStart
    \/ AppClose
    \/ AppReturn
    \/ CloseDone(Manager) /\ ExtIdle
    \/ StartConnected(Manager) /\ ExtIdle
    \/ StartFinish(Manager) /\ ExtIdle

SpecOverlap == Init /\ [][NextOverlap]_vars

\* SpecSuggest: suggest() is called with every strategy on every sample.
NextSuggest == \E st \in Strategies, s \in Samples : SuggestCall(st, s)

SpecSuggest == Init /\ [][NextSuggest]_vars

\* SpecFirstUse: nobody calls start(); the workers enter get_socket on the
\* pool as it was constructed, at any time, and leave their with blocks.  The
\* event loop runs every task that is ready, and connect returns.
NextFirstUse ==
    \/ \E t \in Workers : LeaseBegin(t) /\ ExtIdle
    \/ \E t \in Workers : LeaseEnd(t) /\ ExtIdle
    \/ \E t \in Workers : GetRetry(t) /\ ExtIdle
    \/ \E t \in Workers : Return(t) /\ ExtIdle
    \/ \E t \in Workers : StartConnected(t) /\ ExtIdle
    \/ \E t \in Workers, c \in Conns : PutRetry(t, c) /\ ExtIdle
    \/ \E t \in Workers : StartFinish(t) /\ ExtIdle

FairFirstUse ==
    \A t \in Workers :
        /\ WF_vars(GetRetry(t) /\ ExtIdle)
        /\ WF_vars(LeaseEnd(t) /\ ExtIdle)
        /\ WF_vars(Return(t) /\ ExtIdle)
        /\ WF_vars(StartConnected(t) /\ ExtIdle)
        /\ WF_vars(\E c \in Conns : PutRetry(t, c) /\ ExtIdle)
        /\ WF_vars(StartFinish(t) /\ ExtIdle)

SpecFirstUse == Init /\ [][NextFirstUse]_vars /\ FairFirstUse

ConnectedLease(t) == connected /\ LeaseBegin(t)
StoppedStart == ~connected /\ Quiet /\ StartPool(Manager)

\* SpecQuit: clients lease connections from a pool they find connected, and
\* the manager closes the pool at any time, also while connections are
\* leased; it starts the pool only when it is stopped and no operation is
\* running.
NextQuit ==
    \/ \E t \in Workers : ConnectedLease(t) /\ ExtIdle
    \/ \E t \in Workers : LeaseEnd(t) /\ ExtIdle
    \/ \E t \in Tasks : GetRetry(t) /\ ExtIdle
    \/ \E t \in Tasks : Return(t) /\ ExtIdle
    \/ ClosePool(Manager) /\ ExtIdle
    \/ StoppedStart /\ ExtIdle
    \/ \E t \in Tasks : CloseDone(t) /\ ExtIdle
    \/ \E t \in Tasks : StartConnected(t) /\ ExtIdle
    \/ \E t \in Tasks : StartFinish(t) /\ ExtIdle

SpecQuit == Init /\ [][NextQuit]_vars

\* SpecNaive: the workers fill transactions with one NaiveGasManager on the
\* pooled dispatcher, each call at any time; the pool is started before.
NextNaive ==
    \/ \E t \in Workers, st \in FillStrategies, useStored \in BOOLEAN :
          (useStored \/ Serving) /\ NaiveFillBegin(t, st, useStored)
    \/ \E t \in Workers, b \in Blocks : NaiveFetched(t, b)
    \/ \E t \in Workers : NaiveTake(t)
    \/ \E t \in Workers : GetRetry(t) /\ ExtIdle
    \/ \E t \in Workers, ok \in BOOLEAN : CallSend(t, ok) /\ ExtIdle
    \/ \E t \in Workers, r \in Replies : CallRecv(t, r) /\ ExtIdle
    \/ StoppedStart /\ ExtIdle
    \/ StartConnected(Manager) /\ ExtIdle
    \/ StartFinish(Manager) /\ ExtIdle

SpecNaive == Init /\ [][NextNaive]_vars

\* The task that opens a subscription, and the frame of the pooled calls
\* that task makes (a call has its own lease, so it is followed as a pool
\* client of its own).
Subscriber == 1
InnerCall == 2

\* The task makes a pooled call outside of a subscription, or from inside
\* the body of its subscription; the body goes on (reads the next message,
\* ends) when the call has returned.
OuterBegin == pc[Subscriber] = "idle" /\ Serving /\ CallBegin(InnerCall, 0)
InnerBegin == pc[Subscriber] = "body" /\ CallBegin(InnerCall, 0)
BodyIdle == pc[InnerCall] = "idle"

\* SpecNested: on a started pool one task makes pooled calls and opens a
\* subscription, and makes pooled calls from inside the body of the
\* subscription, as listen_blocks does with get_block_by_hash; the peer
\* answers every request.  (No step puts a connection back while a call
\* waits, so no waiting call is resumed.)
NextNested ==
    \/ BodyIdle /\ SteadySubscribe(Subscriber) /\ ExtIdle
    \/ \E ok \in BOOLEAN : SubSend(Subscriber, ok) /\ ExtIdle
    \/ \E r \in Replies : SubRecv(Subscriber, r) /\ ExtIdle
    \/ BodyIdle /\ BodyRecv(Subscriber) /\ ExtIdle
    \/ \E how \in BodyEnds, ok \in BOOLEAN : BodyIdle /\ BodyExit(Subscriber, how, ok) /\ ExtIdle
    \/ \E r \in Replies : UnsubRecv(Subscriber, r) /\ ExtIdle
    \/ OuterBegin /\ ExtIdle
    \/ InnerBegin /\ ExtIdle
    \/ \E ok \in BOOLEAN : CallSend(InnerCall, ok) /\ ExtIdle
    \/ \E r \in Replies : CallRecv(InnerCall, r) /\ ExtIdle
    \/ \E t \in {Subscriber, InnerCall} : Return(t) /\ ExtIdle
    \/ StoppedStart /\ ExtIdle
    \/ StartConnected(Manager) /\ ExtIdle
    \/ StartFinish(Manager) /\ ExtIdle

\* The event loop runs every task that is ready, connect returns, the peer
\* answers every request of a call, and the caller takes the result.
\* Nothing makes the body of a subscription end.
FairNested ==
    /\ WF_vars(GetRetry(InnerCall) /\ ExtIdle)
    /\ WF_vars(CallSend(InnerCall, TRUE) /\ ExtIdle)
    /\ WF_vars(CallRecv(InnerCall, "result") /\ ExtIdle)
    /\ WF_vars(StartConnected(Manager) /\ ExtIdle)
    /\ WF_vars(StartFinish(Manager) /\ ExtIdle)

SpecNested == Init /\ [][NextNested]_vars /\ FairNested

\* SpecShared: the workers call next_nonce on one NonceManager, each at any
\* time, on a started pool.
NextShared ==
    \/ \E t \in Workers, a \in Addrs : (a \in DOMAIN nonces \/ Serving) /\ SharedNextNonce(t, a)
    \/ \E t \in Workers, c \in Counts : SharedSeeded(t, c)
    \/ \E t \in Workers : SharedReturn(t)
    \/ \E t \in Workers : GetRetry(t) /\ ExtIdle
    \/ \E t \in Workers, ok \in BOOLEAN : CallSend(t, ok) /\ ExtIdle
    \/ \E t \in Workers, r \in Replies : CallRecv(t, r) /\ ExtIdle
    \/ StoppedStart /\ ExtIdle
    \/ StartConnected(Manager) /\ ExtIdle
    \/ StartFinish(Manager) /\ ExtIdle

SpecShared == Init /\ [][NextShared]_vars

\* SpecWire: the workers make calls and open subscriptions on a started
\* pool; the peer answers every envelope on the connection it came in on
\* and pushes messages while it holds a subscription.
NextWire ==
    \/ \E t \in Workers : Serving /\ WireCallBegin(t)
    \/ \E t \in Workers, ok \in BOOLEAN : WireCallSend(t, ok)
    \/ \E t \in Workers : WireCallRecv(t)
    \/ \E t \in Workers : SteadySubscribe(t) /\ ExtIdle
    \/ \E t \in Workers, ok \in BOOLEAN : WireSubSend(t, ok)
    \/ \E t \in Workers : WireSubRecv(t)
    \/ \E c \in Conns : Push(c)
    \/ \E t \in Workers : WireBodyRecv(t)
    \/ \E t \in Workers, how \in BodyEnds, ok \in BOOLEAN : WireBodyExit(t, how, ok)
    \/ \E t \in Workers : WireUnsubRecv(t)
    \/ \E t \in Workers : GetRetry(t) /\ ExtIdle
    \/ \E t \in Workers : Return(t) /\ ExtIdle
    \/ StoppedStart /\ ExtIdle
    \/ StartConnected(Manager) /\ ExtIdle
    \/ StartFinish(Manager) /\ ExtIdle

SpecWire == Init /\ [][NextWire]_vars

\* SpecReceipt: on a started pool the workers ask for receipts with 0 to
\* MaxRetries retries and make plain calls; the peer answers anything.
NextReceipt ==
    \/ \E t \in Workers, r \in 0..MaxRetries : Serving /\ ReceiptBegin(t, r)
    \/ \E t \in Workers, ok \in BOOLEAN : ReceiptSend(t, ok)
    \/ \E t \in Workers, r \in ReceiptReplies : ReceiptRecv(t, r)
    \/ \E t \in Workers : ReceiptWake(t)
    \/ \E t \in Workers : ReceiptReturn(t)
    \/ \E t \in Workers : SteadyCall(t, 0) /\ ExtIdle
    \/ \E t \in Workers : GetRetry(t) /\ ExtIdle
    \/ \E t \in Workers, ok \in BOOLEAN : CallSend(t, ok) /\ ExtIdle
    \/ \E t \in Workers, r \in Replies : op[t] = "call" /\ CallRecv(t, r) /\ ExtIdle
    \/ StoppedStart /\ ExtIdle
    \/ StartConnected(Manager) /\ ExtIdle
    \/ StartFinish(Manager) /\ ExtIdle

SpecReceipt == Init /\ [][NextReceipt]_vars

\* SpecRecv: a consumer iterates recv() of Subscriptions with every
\* max_message_num from -1 to MaxCount; the peer pushes any message.
NextRecv ==
    \/ \E n \in (0 - 1)..MaxCount : RecvCreate(n)
    \/ RecvNext
    \/ \E o \in Objects : RecvMessage(o)
    \/ RecvDrop

SpecRecv == Init /\ [][NextRecv]_vars

\* SpecSupplied: one caller makes calls on a connection it supplies while
\* the application starts and closes the pool of the same dispatcher.
NextSupplied ==
    \/ \E m \in {"call", "receipt"}, shapes \in ParamLists, r \in 0..MaxRetries, ok \in BOOLEAN :
          DirectBegin(m, shapes, r, ok)
    \/ \E os \in PendingAnswers : DirectRecv(os)
    \/ DirectFail
    \/ \E ok \in BOOLEAN : DirectWake(ok)
    \/ DirectReturn
    \/ AppStart
    \/ AppClose
    \/ AppReturn
    \/ CloseDone(Manager) /\ ExtIdle
    \/ StartConnected(Manager) /\ ExtIdle
    \/ StartFinish(Manager) /\ ExtIdle

SpecSupplied == Init /\ [][NextSupplied]_vars

\* ------------------------------------------------------------ claims
Range(f) == {f[i] : i \in 1..Len(f)}
NoDuplicates(f) == \A i, j \in 1..Len(f) : i # j => f[i] # f[j]
Count(f, e) == Cardinality({i \in 1..Len(f) : f[i].e = e})

\* The tasks that hold a connection leased through get_socket, the tasks
\* suspended in it, and the tasks resumed by a release that have not run yet.
Leased == {t \in Tasks : held[t] # NoConn}
Waiting == {t \in Tasks : pc[t] = "waiting"}
Woken == {t \in Tasks : pc[t] = "woken"}

C2_AtMostNOpen ==
    /\ Cardinality(open) <= PoolSize
    /\ Len(sockets) <= PoolSize
    /\ \A t \in Tasks : held[t] # NoConn => held[t] \notin Range(sockets)

\* The operations of the dispatcher that lease a connection.
Leasing == {"call", "sub"}

ReachedOpen(t) == op[t] = "sub" /\ subId[t] \notin {NoSub, EmptyId}

C5_RejectedNeverOpen ==
    \A t \in Tasks : pc[t] = "body" => subId[t] # EmptyId

\* The subscribe scope of task t holds its connection: from the lease to the
\* reply to eth_unsubscribe.
Bound(t) == op[t] = "sub" /\ pc[t] \in {"send", "sub_recv", "body", "unsub_recv"}

C7_WaiterObtains ==
    \A t \in Tasks : (pc[t] = "waiting") ~> (held[t] # NoConn)

\* C8: a task that obtains a connection obtains the connection at the head of
\* the idle queue, and when it had been suspended it is the task that has been
\* waiting longest.
C8_ServedInOrder ==
    [][\A t \in Tasks :
          (held[t] = NoConn /\ held'[t] # NoConn)
             => /\ held'[t] = Head(sockets)
                /\ (t \in Range(waitOrder)) => t = Head(waitOrder)]_vars

\* C9: when start() returns (called after quit(), or on a started pool) the
\* pool is marked started and its idle queue holds exactly N connections, all
\* of them opened by this start().
C9_StartGivesNFresh ==
    [][\A t \in Tasks :
          (op[t] = "start" /\ pc[t] = "putting" /\ pc'[t] = "done")
             => /\ connected'
                /\ Len(sockets') = PoolSize
                /\ Range(sockets') \subseteq mine[t]]_vars

\* C10: the envelopes one dispatcher builds carry the ids 0, 1, 2, ... in the
\* order they are built, one id per envelope (a call that is not batched, an
\* element of a batch, eth_subscribe, eth_unsubscribe), whatever the
\* interleaving of the tasks; a call on another dispatcher changes neither
\* the _id of this one nor its envelopes.
C10_IdsGrowByOne ==
    /\ [](/\ rpcId = Len(envIds)
          /\ \A i \in 1..Len(envIds) : envIds[i] = i - 1
          /\ NoDuplicates(envIds))
    /\ [][otherId' # otherId => (rpcId' = rpcId /\ envIds' = envIds)]_vars

\* C10 witness: the shared dispatcher has built MaxId envelopes while two
\* tasks have calls in flight, and the other dispatcher has made calls of its
\* own.
C10_Witness ==
    /\ rpcId = MaxId
    /\ Len(envIds) = MaxId
    /\ otherId > 0
    /\ Cardinality({t \in Tasks : op[t] = "call" /\ pc[t] \in {"waiting", "recv"}}) >= 2

\* A call on a supplied connection has ended with what parse_results made of
\* one response object.
ParsedOne ==
    /\ dpc = "done"
    /\ dout.kind # "ConnectionClosed"
    /\ ~wire[Len(wire)].array

\* C11: parse_results on one response object raises RequestError with the
\* peer's code and message whenever the object has an error member (a result
\* member may be there as well), raises InvalidReturn when it has neither
\* member, and otherwise returns the result member.
C11_ErrorMemberRaises ==
    ParsedOne =>
        dout = IF dresp[1].error.present THEN RequestError(dresp[1].error)
               ELSE IF dresp[1].result = NoMember THEN InvalidReturn
               ELSE Returned(dresp[1].result)

\* The parameters ps are all lists of length k.
AllListsOf(ps, k) == \A j \in 1..Len(ps) : ps[j].list /\ Len(ps[j].items) = k

\* C12: a call with at least one parameter sends one message; when all its
\* parameters are lists of a common length k >= 0 the message is a JSON array
\* of k envelopes, the i-th carrying the i-th item of every list; when some
\* parameter is not a list the message is a single envelope.
C12_OneEnvelopePerIndex ==
    (dcall.method = "call" /\ Len(dcall.params) >= 1)
        => /\ Len(wire) = 1
           /\ \A k \in 0..MaxBatch :
                 AllListsOf(dcall.params, k)
                    => /\ wire[1].array
                       /\ Len(wire[1].envs) = k
                       /\ \A i \in 1..k :
                             wire[1].envs[i].params =
                                [j \in 1..Len(dcall.params) |-> Value(dcall.params[j].items[i])]
           /\ (\E j \in 1..Len(dcall.params) : ~dcall.params[j].list)
                 => (~wire[1].array /\ Len(wire[1].envs) = 1)

\* get_transaction_receipt is running, or has ended and was not yet returned.
InReceipt == dcall.method = "receipt"

\* C13: get_transaction_receipt(tx_hash, retries = r) sends at most r + 1
\* requests, one sleep before every request after the first; it sleeps only
\* after a null result; it returns null only after r + 1 requests that all
\* got null; with r = 0 it sends one request; and it ends whenever the peer
\* answers.
C13_AtMostRPlusOne ==
    /\ [](InReceipt =>
            /\ Len(wire) <= dcall.given + 1
            /\ Len(wire) = sleeps + 1
            /\ dpc = "sleeping" => ParseMsg(dresp, FALSE) = Returned(Null)
            /\ (dpc = "done" /\ dout = Returned(Null)) => Len(wire) = dcall.given + 1
            /\ dcall.given = 0 => Len(wire) = 1)
    /\ [][(InReceipt /\ Len(wire') > Len(wire)) => dpc = "sleeping"]_vars
    /\ ((InReceipt /\ dpc \in {"sent", "sleeping"}) ~> (dpc = "done"))

\* C13 witness: a receipt asked for with MaxRetries retries came back null
\* after MaxRetries + 1 requests and MaxRetries sleeps.
C13_Witness ==
    /\ InReceipt /\ dpc = "done"
    /\ dcall.given = MaxRetries
    /\ dout = Returned(Null)
    /\ Len(wire) = MaxRetries + 1
    /\ sleeps = MaxRetries

\* C14: for sequential next_nonce calls on one NonceManager, an address whose
\* first request succeeded is asked for with exactly one
\* eth_getTransactionCount request, and its k-th call returns the reported
\* count + k - 1.
C14_CountThenPlusOne ==
    \A a \in Addrs :
        ~nhist[a].failed
           => /\ nhist[a].asked <= 1
              /\ nhist[a].calls >= 1 => nhist[a].asked = 1
              /\ (nn.pc = "done" /\ nn.addr = a)
                    => nn.ret = nhist[a].first + nhist[a].calls - 1

\* C14 witness: the last of MaxCalls calls for an address with a reported
\* count of 5 has returned 5 + MaxCalls - 1.
C14_Witness ==
    \E a \in Addrs :
        /\ ~nhist[a].failed
        /\ nhist[a].calls = MaxCalls
        /\ nhist[a].first = 5
        /\ nn.pc = "done" /\ nn.addr = a
        /\ nn.ret = 5 + MaxCalls - 1
        /\ nhist[a].asked = 1

\* C15: in every scoped session of a NonceManager, a first or a later one, a
\* pool that was not running at entry is running inside the session and is
\* stopped when the session is over, and a pool that was running at entry is
\* running when the session is over.
C15_SessionOwnsPool ==
    /\ [](nmPhase = "in" => connected)
    /\ [][(nmPhase # "out" /\ nmPhase' = "out")
             => (connected' <=> nmFound = "running")]_vars

\* C16: in every session of GasManager.naive_manager() and of
\* GasManager.informed_manager(), a pool that was not running when the
\* session was entered is running inside the session and is stopped after the
\* session exits, and a pool that was running at entry is running after exit.
C16_GasSessionOwnsPool ==
    /\ [](gmPhase = "in" => connected)
    /\ [][(gmPhase \in {"in", "leaving"} /\ gmPhase' = "out")
             => (connected' <=> gmFound = "running")]_vars

\* C17: a new informed_manager() session without initial values, opened after
\* an earlier informed session of the same GasManager ended (by the end of
\* its body or by an exception; no reset in between), starts with the
\* estimate that session ended with, in every field.
C17_EstimateCarriedOver ==
    (gmPhase = "priced" /\ informedBefore) => prices = stored

\* C18: every gas, maxFeePerGas and maxPriorityFeePerGas value that
\* fill_transaction of a session of a GasManager has written into a
\* transaction is at most the ceiling given for the field to the GasManager
\* constructor.
C18_FilledUnderGivenCeiling ==
    \A f \in Fields : tx[f] <= GivenCeilings[f]

\* C19: after every execution_fail() and every execution_success() the
\* maxFeePerGas estimate is at least the maxPriorityFeePerGas estimate.
C19_FeeAtLeastPriority ==
    hook.name \in {"execution_fail", "execution_success"}
        => prices.maxFeePerGas >= prices.maxPriorityFeePerGas

\* An execution_fail() has run on an estimate whose maxFeePerGas was below
\* the new priority fee.
C19_Witness ==
    /\ hook.name = "execution_fail"
    /\ hook.before.maxFeePerGas < prices.maxPriorityFeePerGas

\* C20: execution_fail() on a priority-fee estimate P sets the
\* maxPriorityFeePerGas estimate to round(P * failMultiplier), for every P.
C20_FailRoundsPriority ==
    hook.name = "execution_fail"
        => prices.maxPriorityFeePerGas
               = RoundTimes(FailNum, FailDen, hook.before.maxPriorityFeePerGas)

\* C21: an execution_success() that follows an execution_fail() leaves the
\* maxPriorityFeePerGas estimate strictly smaller than the value the
\* execution_fail() left, for every priority fee the estimator can hold.
C21_SuccessAfterFailSmaller ==
    [][(hook.name = "execution_fail" /\ hook'.name = "execution_success")
          => prices'.maxPriorityFeePerGas < prices.maxPriorityFeePerGas]_vars

\* C22: suggest with the upper-quartile or the lower-quartile strategy over
\* fewer than 4 prices returns the rounded mean of the prices.
C22_QuartileFallsBackToMean ==
    (strategy \in {"upper_quartile_price", "lower_quartile_price"} /\ Len(sample) < 4)
        => suggested = RoundMean(sample)

\* C23: while the pool is started, every connection get_socket hands out is
\* an open connection, and no step in which a connection is acquired or
\* released opens or closes a connection.
C23_CyclesKeepConnections ==
    /\ [](\A t \in Tasks : held[t] # NoConn => held[t] \in open)
    /\ [][held' # held => open' = open]_vars

\* A task holds a connection that another task has put back before.
C23_Witness ==
    \E t \in Tasks, u \in Tasks :
        /\ t # u
        /\ held[t] # NoConn
        /\ \E i \in 1..Len(log[u]) : log[u][i] = Ev("put", held[t], NoSub)

\* C24: when tasks make their first get_socket call on a pool that was never
\* started, each task that found the pool not started comes to hold a connection, no
\* release fails, and the pool never has more than PoolSize connections open.
C24_FirstUseStartsPool ==
    /\ \A t \in Workers : (op[t] = "lease" /\ pc[t] = "connecting") ~> (held[t] # NoConn)
    /\ [](\A t \in Workers : res[t] \notin {"QueueFull", "ValueError"})
    /\ [](Cardinality(open) <= PoolSize)

C26_BatchByPosition ==
    (dpc = "done" /\ dout.kind = "list")
        => /\ Len(dout.values) = Len(dresp)
           /\ \A i \in 1..Len(dresp) : dout.values[i] = dresp[i].result

\* The peer answered a batch of two in the other order, with two different
\* results: the call returns without an error and the first value is the
\* result the peer gave for the id of the second request.
C26_Witness ==
    /\ dpc = "done" /\ dout.kind = "list" /\ Len(dresp) = 2
    /\ LET envs == wire[Len(wire)].envs
       IN  /\ dresp[1].id = envs[2].id /\ dresp[2].id = envs[1].id
           /\ envs[1].id # envs[2].id
           /\ dresp[1].result # dresp[2].result
           /\ dout.values[1] = dresp[1].result

\* C27: when the result member of a response is JSON-encoded text,
\* parse_results returns the value the text decodes to, not the text.
C27_EncodedResultDecoded ==
    (dpc = "done" /\ dout.kind = "return" /\ dresp[1].result = EncodedText)
        => dout.value = JsonLoads(EncodedText)

\* C28: a dispatcher call other than get_transaction_receipt sends one
\* request message per invocation; in get_transaction_receipt an attempt is
\* followed by another one only after a response that parses to null, and an
\* error response, an invalid response or a transport failure ends the call
\* with that error.
C28_SingleAttempt ==
    /\ [](dcall.method = "call" => Len(wire) = 1)
    /\ [][(dcall.method = "receipt" /\ dpc = "sent" /\ dpc' # "sent")
             => LET msg == ParseMsg(dresp', wire[Len(wire)].array)
                IN  \/ dpc' = "done" /\ dout' = ConnectionClosed
                    \/ dpc' = "done" /\ dout' = msg
                    \/ /\ dpc' = "sleeping" /\ dout' = NoOutcome
                       /\ dresp' # <<>> /\ msg = Returned(Null)]_vars
    /\ [][(dpc = "sleeping" /\ dpc' # "sleeping")
             => \/ dpc' = "sent"
                \/ dpc' = "done" /\ dout' = ConnectionClosed]_vars

\* get_transaction_receipt with retries left has ended with the error of
\* its second attempt.
C28_Witness ==
    /\ dcall.method = "receipt" /\ dpc = "done"
    /\ dout.kind \in {"RequestError", "InvalidReturn"}
    /\ Len(wire) = 2 /\ dcall.retries > 0

C30_SuppliedLeavesPool ==
    [][(dpc' # dpc \/ dcall' # dcall \/ wire' # wire \/ dresp' # dresp \/ dout' # dout)
          => (poolVars' = poolVars /\ held' = held /\ pc' = pc)]_vars

\* A call on a supplied connection has returned a result while the pool was
\* started and its connection idle.
C30_Witness ==
    /\ dpc = "done" /\ dout.kind = "return"
    /\ connected /\ sockets # <<>> /\ pc[Manager] = "idle"


\* The nonces next_nonce can return in a run.
NonceValues == 0..(5 + MaxCalls)

FromBlock(b, f, st) ==
    IF SuggestRaises(b, f) THEN NoPrice
    ELSE Min(Suggest(st, PricesOf(b.txs, f)), SessionCeilings[f])

\* C32: within one NaiveGasManager.fill_transaction call, the gas,
\* maxFeePerGas and maxPriorityFeePerGas written into the transaction are
\* all computed from the same block sample (the one this call fetched, or
\* the stored one with use_stored), also when fill_transaction calls of other
\* tasks on the same manager are interleaved with it.
C32_OneSamplePerFill ==
    \A t \in Workers :
        nf[t].pc \in {"done", "raised"}
           => \A f \in Fields :
                 nf[t].tx[f] # NoPrice => nf[t].tx[f] = FromBlock(nf[t].got, f, nf[t].st)

\* C32 witness: a call that fetched its block while another call stored a
\* different one has written its three fields, and the manager holds a
\* sample that gives other values.
C32_Witness ==
    \E t \in Workers :
        /\ nf[t].pc = "done" /\ ~nf[t].stored /\ nf[t].crossed
        /\ \A f \in Fields : nf[t].tx[f] = FromBlock(nf[t].got, f, nf[t].st)
        /\ \E x \in Workers :
              /\ x # t /\ nf[x].pc = "done"
              /\ \A f \in Fields : nf[x].tx[f] # nf[t].tx[f]


\* C38: NaiveGasManager.fill_transaction either writes all three fee fields
\* of a transaction or, when it fails (empty latest block, or no transaction
\* of the sample carries a value for one of the fields), leaves that
\* transaction unchanged.
C38_AllFieldsOrNone ==
    \A t \in Workers :
        /\ nf[t].pc = "done" => \A f \in Fields : nf[t].tx[f] # NoPrice
        /\ nf[t].pc = "raised" => nf[t].tx = NoTx


\* C33: with fail_multiplier > 1 and success_multiplier < 1, gas_fail
\* strictly raises the gas estimate and execution_fail strictly raises the
\* maxPriorityFeePerGas estimate whenever that estimate is positive, and
\* execution_success never raises the maxPriorityFeePerGas estimate.
C33_FeedbackMoves ==
    [][/\ (hook' # hook /\ hook'.name = "gas_fail" /\ prices.gas > 0)
             => prices'.gas > prices.gas
       /\ (hook' # hook /\ hook'.name = "execution_fail" /\ prices.maxPriorityFeePerGas > 0)
             => prices'.maxPriorityFeePerGas > prices.maxPriorityFeePerGas
       /\ (hook' # hook /\ hook'.name = "execution_success")
             => prices'.maxPriorityFeePerGas <= prices.maxPriorityFeePerGas]_vars


\* C34: every dispatcher call that leases a pooled connection returns the
\* response to the request it sent on that connection: also after a
\* subscription closed with push messages unread on its connection, no call
\* reads a leftover push message or the eth_unsubscribe acknowledgement as
\* its own response.
C34_CallReadsItsResponse ==
    \A t \in Workers :
        (op[t] = "call" /\ pc[t] = "done" /\ got[t] # NoMsg)
           => got[t] = Msg("result", reqId[t])


\* C35: for one address, the values returned by next_nonce are pairwise
\* distinct and the cached nonce never decreases, also when several
\* next_nonce calls for that address are interleaved while the address is
\* still being seeded from the chain.
C35_NoncesDistinct ==
    /\ [](\A a \in Addrs : NoDuplicates(returned[a]))
    /\ [][\A a \in DOMAIN nonces : nonces'[a] >= nonces[a]]_vars


\* C36: while a manager session (NonceManager or naive_manager) on a
\* dispatcher is active, the exit of another session on the same dispatcher
\* does not stop the pool: overlapping, non-nested sessions never leave an
\* active session with a stopped pool.
C36_ActiveSessionHasPool ==
    /\ (nmPhase = "in" /\ gmPhase \in {"out", "in"}) => connected
    /\ (gmPhase = "in" /\ nmPhase \in {"out", "in"}) => connected


\* C37: a pooled dispatcher call issued from inside the body of an open
\* subscription eventually completes when the peer answers: holding the
\* subscription open never leaves the caller waiting forever in get_socket,
\* in particular with pool size 1 and one open subscription.
C37_InnerCallCompletes ==
    (pc[Subscriber] = "body" /\ op[InnerCall] = "call" /\ pc[InnerCall] # "done")
        ~> (pc[InnerCall] = "done")


\* C39: every transaction written by InformedGasManager.fill_transaction has
\* maxFeePerGas >= maxPriorityFeePerGas, in every state the estimator can
\* reach: right after seeding, after gas_fail, after any sequence of
\* feedback hooks.
C39_FilledFeeAtLeastPriority ==
    (gmKind = "informed" /\ gmPhase = "in")
        => tx.maxFeePerGas >= tx.maxPriorityFeePerGas


\* The events of history l are leases each followed by the put of the same connection.
LeasedAndPut(l) ==
    /\ Len(l) % 2 = 0
    /\ \A i \in 1..Len(l) :
          IF i % 2 = 1 THEN l[i].e = "lease"
          ELSE l[i].e = "put" /\ l[i].c = l[i - 1].c

\* C40: while get_transaction_receipt without a supplied connection sleeps
\* between attempts it holds no pooled connection: every attempt before the
\* sleep leased a connection and put it back, the sleeping task is in no
\* queue of waiters, and when no other task holds a connection the whole
\* pool is in the queue, so a call that starts during the sleep of a pool of
\* size 1 gets the connection at once.
C40_SleepHoldsNoConnection ==
    /\ [](\A t \in Workers :
            (op[t] = "receipt" /\ pc[t] = "sleeping")
               => /\ held[t] = NoConn
                  /\ LeasedAndPut(log[t])
                  /\ log[t] # <<>>
                  /\ \A i \in 1..Len(getters) : getters[i] # t
                  /\ (\A u \in Tasks : held[u] = NoConn) => Len(sockets) = PoolSize)
    /\ [][\A t \in Workers, u \in Workers :
            (/\ op[t] = "receipt" /\ pc[t] = "sleeping" /\ pc'[t] = "sleeping"
             /\ pc[u] = "idle" /\ pc'[u] # "idle"
             /\ \A w \in Tasks : held[w] = NoConn)
               => held'[u] # NoConn]_vars

\* C40 witness: one worker sleeps between two attempts of
\* get_transaction_receipt while another one has sent its request on the
\* only connection of the pool.
C40_Witness ==
    \E t \in Workers, u \in Workers :
        /\ op[t] = "receipt" /\ pc[t] = "sleeping" /\ receipt[t].retries > 0
        /\ u # t /\ pc[u] = "recv" /\ held[u] # NoConn
        /\ PoolSize = 1

====
